---- MODULE Spec2Model ----
(***************************************************************************)
(* A model of spexma: the partitioning engine (split.ProcessCSV, writeCSV, *)
(* sanitizeFilename) and the publish pipeline (publish.Publisher).         *)
(*                                                                         *)
(* Strings are sequences of one-character strings, so that the string      *)
(* functions of the source are computed character by character.            *)
(***************************************************************************)
EXTENDS Integers, Sequences, FiniteSets, Bags, TLC

VARIABLES
    \* ---- split.ProcessCSV ----
    header,             \* the header record of the input file
    input,              \* the lines of the input file after the header
    pc,                 \* where ProcessCSV is
    pos,                \* the next line csvReader.Read returns
    columnUsage,        \* sourcetype -> set of column indices seen non-empty
    sourcetypeHeaderIdx,\* sourcetype -> column indices, in header order
    recordChannels,     \* sourcetype -> the rows buffered in its channel
    chClosed,           \* the record channels that were closed
    writer,             \* sourcetype -> the state of its writer goroutine
    fs,                 \* output file name -> the lines it holds
    records,            \* Stats.records
    errorChan,          \* the errors buffered in errorChan
    errClosed,          \* errorChan was closed
    collector,          \* where the error-collecting goroutine is
    processingErr,      \* the first error the collector received
    closer,             \* where the goroutine that closes errorChan is
    retErr,             \* what ProcessCSV returned
    panicked,           \* a goroutine sent on the closed errorChan
    usedDefault,        \* the router took the default arm of its select
    \* ---- publish.Publisher ----
    config,             \* PublisherConfig, after NewPublisher
    files,              \* the CSV files of the directory, in Glob's order
    pubPc,              \* where PublishDirectory is
    fed,                \* the files PublishDirectory has put on filesCh
    filesCh,            \* the file paths buffered in filesCh
    filesClosed,        \* filesCh was closed
    worker,             \* worker goroutine -> its state
    progress,           \* Progress
    sink,               \* <<file, batch start>> -> how often the sink accepted it
    fileResult,         \* file -> what processFile returned for it
    pubErrorChan,       \* the errors buffered in Publisher.errorChan
    pubRet,             \* what PublishDirectory returned
    \* ---- functions applied on their own ----
    arg,                \* the argument a function is applied to
    ret                 \* what the function returned, one entry per application

splitVars == <<header, input, pc, pos, columnUsage, sourcetypeHeaderIdx,
               recordChannels, chClosed, writer, fs, records, errorChan,
               errClosed, collector, processingErr, closer, retErr, panicked,
               usedDefault>>

pubVars == <<config, files, pubPc, fed, filesCh, filesClosed, worker, progress,
             sink, fileResult, pubErrorChan, pubRet>>

fnVars == <<arg, ret>>

vars == <<splitVars, pubVars, fnVars>>

-----------------------------------------------------------------------------
(* Bounds of the model. *)

\* the longest input, in lines after the header
MaxRows == 2
\* bufferSize, the capacity of a record channel: 1000 in the source, scaled
bufferSize == 1
\* the flush cadence of writeCSV: every 1000 records in the source, scaled
flushEvery == 1

\* the capacity of errorChan
errorChanCap == 100

-----------------------------------------------------------------------------
(* Strings. *)

NoErr == "nil"

\* the nil error of ProcessCSV and PublishDirectory: their errors are tuples,
\* as the error channels hold them
nilError == <<>>

unknown == <<"u", "n", "k", "n", "o", "w", "n">>
sourcetypeCol == <<"s", "o", "u", "r", "c", "e", "t", "y", "p", "e">>
ColA == <<"a">>
Empty == <<>>

\* the characters sanitizeFilename replaces (the control characters are not drawn)
IllegalChars == {"<", ">", ":", "\"", "/", "\\", "|", "?", "*"}
\* the cutset of strings.Trim in sanitizeFilename
TrimChars == {" ", ".", "_"}

RECURSIVE ReplaceIllegal(_)
ReplaceIllegal(s) ==
    IF s = <<>> THEN <<>>
    ELSE <<IF Head(s) \in IllegalChars THEN "_" ELSE Head(s)>>
             \o ReplaceIllegal(Tail(s))

RECURSIVE CollapseUnderscores(_)
CollapseUnderscores(s) ==
    IF Len(s) < 2 THEN s
    ELSE IF s[1] = "_" /\ s[2] = "_" THEN CollapseUnderscores(Tail(s))
    ELSE <<Head(s)>> \o CollapseUnderscores(Tail(s))

RECURSIVE TrimLeft(_)
TrimLeft(s) ==
    IF s # <<>> /\ Head(s) \in TrimChars THEN TrimLeft(Tail(s)) ELSE s

RECURSIVE TrimRight(_)
TrimRight(s) ==
    IF s # <<>> /\ s[Len(s)] \in TrimChars
    THEN TrimRight(SubSeq(s, 1, Len(s) - 1)) ELSE s

Trim(s) == TrimRight(TrimLeft(s))

\* a sanitizeFilename that trims before it replaces the illegal characters
sanitizeTrimFirst(name) ==
    LET sanitized == CollapseUnderscores(ReplaceIllegal(Trim(name)))
    IN  IF sanitized = <<>> THEN unknown ELSE sanitized

sanitizeFilename(name) ==
    LET sanitized == Trim(CollapseUnderscores(ReplaceIllegal(name)))
    IN  IF sanitized = <<>> THEN unknown ELSE sanitized

\* filepath.Join(outputDir, sanitizedSourcetype+".csv"), the directory left out
OutputFile(sourcetype) == sanitizeFilename(sourcetype) \o <<".csv">>

-----------------------------------------------------------------------------
(* The input. *)

Header1 == <<ColA, sourcetypeCol>>
Header2 == <<ColA>>

\* the sourcetype values drawn: empty, a plain name, a name of illegal characters only
Keys == {Empty, <<"x">>, <<"/">>}
Values == {Empty, <<"1">>}

\* a line with as many fields as the header, and one with fewer
FullRows == {<<v, k>> : v \in Values, k \in Keys}
ShortRows == {<< <<"1">> >>}
Rows == FullRows \cup ShortRows

RECURSIVE SeqsUpTo(_, _)
SeqsUpTo(S, n) ==
    IF n = 0 THEN {<<>>}
    ELSE LET shorter == SeqsUpTo(S, n - 1)
         IN  shorter \cup {Append(s, x) : s \in {t \in shorter : Len(t) = n - 1}, x \in S}

Inputs == SeqsUpTo(Rows, MaxRows)

\* the index of the sourcetype column in the header, 0 when it is missing
RECURSIVE IndexFrom(_, _, _)
IndexFrom(hdr, col, i) ==
    IF i > Len(hdr) THEN 0
    ELSE IF hdr[i] = col THEN i ELSE IndexFrom(hdr, col, i + 1)

sourcetypeIdx == IndexFrom(header, sourcetypeCol, 1)

\* csvReader.Read: a line whose field count differs from the header's is
\* returned with ErrFieldCount (FieldsPerRecord is 0, set by the first record)
ReadError(line) == Len(line) # Len(header)

\* the line is skipped by the pass: a read error, or too few fields
Skipped(line) == ReadError(line) \/ Len(line) < sourcetypeIdx

\* the sourcetype of a record, "unknown" when the field is empty
SourcetypeOf(record) ==
    IF record[sourcetypeIdx] = Empty THEN unknown ELSE record[sourcetypeIdx]

-----------------------------------------------------------------------------
(* Maps (Go maps, the file system): functions whose domain grows. *)

EmptyMap == [x \in {} |-> 0]
Get(m, k, default) == IF k \in DOMAIN m THEN m[k] ELSE default
Put(m, k, v) == [x \in DOMAIN m \cup {k} |-> IF x = k THEN v ELSE m[x]]

-----------------------------------------------------------------------------
(* Pass 1 and the schemas. *)

\* the columns of a record that hold a non-empty value
NonEmptyColumns(record) == {i \in 1..Len(record) : record[i] # Empty}

\* columnUsage after one more record
MarkUsage(usage, record) ==
    LET st == SourcetypeOf(record)
    IN  Put(usage, st, Get(usage, st, {}) \cup NonEmptyColumns(record))

\* an idxList that is built from the last column of the header to the first
RECURSIVE IdxListBackFrom(_, _)
IdxListBackFrom(usedColumns, i) ==
    IF i > Len(header) THEN <<>>
    ELSE IdxListBackFrom(usedColumns, i + 1) \o (IF i \in usedColumns THEN <<i>> ELSE <<>>)

\* idxList: the header's indices that are in usedColumns, in header order
RECURSIVE IdxListFrom(_, _)
IdxListFrom(usedColumns, i) ==
    IF i > Len(header) THEN <<>>
    ELSE (IF i \in usedColumns THEN <<i>> ELSE <<>>) \o IdxListFrom(usedColumns, i + 1)

IdxList(usedColumns) == IdxListFrom(usedColumns, 1)

\* headerList: the names of the columns of idxList
RECURSIVE HeaderList(_)
HeaderList(idxList) ==
    IF idxList = <<>> THEN <<>>
    ELSE <<header[Head(idxList)]>> \o HeaderList(Tail(idxList))

\* a projection that keeps every field of the row
FilterRecordAll(record, colIndices) == record

\* filteredRecord of writeCSV: the record's fields at colIndices, "" past its end
RECURSIVE FilterRecord(_, _)
FilterRecord(record, colIndices) ==
    IF colIndices = <<>> THEN <<>>
    ELSE <<IF Head(colIndices) <= Len(record) THEN record[Head(colIndices)] ELSE Empty>>
             \o FilterRecord(record, Tail(colIndices))

-----------------------------------------------------------------------------
(* Output files. A file is a sequence of lines; every open file has its    *)
(* own offset, os.Create truncates, and a write past the end leaves a hole.*)

Hole == << <<"NUL">> >>

Max(a, b) == IF a >= b THEN a ELSE b

WriteAt(content, off, buf) ==
    LET n == Max(Len(content), off + Len(buf))
        line(i) == IF i > off /\ i <= off + Len(buf) THEN buf[i - off]
                   ELSE IF i <= Len(content) THEN content[i] ELSE Hole
        build[i \in 0..n] == IF i = 0 THEN <<>> ELSE Append(build[i - 1], line(i))
    IN  build[n]

-----------------------------------------------------------------------------
(* split.ProcessCSV *)

SplitInit ==
    /\ \/ header = Header1 /\ input \in Inputs
       \/ header = Header2 /\ input = <<>>
    /\ pc = "start"
    /\ pos = 1
    /\ columnUsage = EmptyMap
    /\ sourcetypeHeaderIdx = EmptyMap
    /\ recordChannels = EmptyMap
    /\ chClosed = {}
    /\ writer = EmptyMap
    /\ fs = EmptyMap
    /\ records = EmptyMap
    /\ errorChan = <<>>
    /\ errClosed = FALSE
    /\ collector = "none"
    /\ processingErr = nilError
    /\ closer = "none"
    /\ retErr = nilError
    /\ panicked = FALSE
    /\ usedDefault = FALSE

\* the sourcetype column is not in the header
MissingColumn ==
    /\ pc = "start" /\ ~panicked
    /\ sourcetypeIdx = 0
    /\ pc' = "returned"
    /\ retErr' = <<"column not found">>
    /\ UNCHANGED <<pubVars, fnVars>>
    /\ UNCHANGED <<header, input, pos, columnUsage, sourcetypeHeaderIdx,
                   recordChannels, chClosed, writer, fs, records, errorChan,
                   errClosed, collector, processingErr, closer, panicked, usedDefault>>

\* the error collector is started and pass 1 begins
StartPass1 ==
    /\ pc = "start" /\ ~panicked
    /\ sourcetypeIdx # 0
    /\ collector' = "running"
    /\ pc' = "pass1"
    /\ pos' = 1
    /\ UNCHANGED <<pubVars, fnVars>>
    /\ UNCHANGED <<header, input, columnUsage, sourcetypeHeaderIdx,
                   recordChannels, chClosed, writer, fs, records, errorChan,
                   errClosed, processingErr, closer, retErr, panicked, usedDefault>>

\* the error collector is started, then file.Seek or the read of the header
\* fails: ProcessCSV returns the error (pc "failed": returned before pass 2)
ResetFailsPass1 ==
    /\ pc = "start" /\ ~panicked
    /\ sourcetypeIdx # 0
    /\ collector' = "running"
    /\ pc' = "failed"
    /\ retErr' = <<"error resetting file">>
    /\ UNCHANGED <<pubVars, fnVars>>
    /\ UNCHANGED <<header, input, pos, columnUsage, sourcetypeHeaderIdx,
                   recordChannels, chClosed, writer, fs, records, errorChan,
                   errClosed, processingErr, closer, panicked, usedDefault>>

\* after pass 1 file.Seek or the read of the header fails: ProcessCSV returns
\* the error
ResetFailsPass2 ==
    /\ pc = "pass1" /\ ~panicked
    /\ pos > Len(input)
    /\ pc' = "failed"
    /\ retErr' = <<"error resetting file">>
    /\ UNCHANGED <<pubVars, fnVars>>
    /\ UNCHANGED <<header, input, pos, columnUsage, sourcetypeHeaderIdx,
                   recordChannels, chClosed, writer, fs, records, errorChan,
                   errClosed, collector, processingErr, closer, panicked, usedDefault>>

\* pass 1 reads one line
AnalyzeRow ==
    /\ pc = "pass1" /\ ~panicked
    /\ pos <= Len(input)
    /\ columnUsage' = IF Skipped(input[pos]) THEN columnUsage
                      ELSE MarkUsage(columnUsage, input[pos])
    /\ pos' = pos + 1
    /\ UNCHANGED <<pubVars, fnVars>>
    /\ UNCHANGED <<header, input, pc, sourcetypeHeaderIdx,
                   recordChannels, chClosed, writer, fs, records, errorChan,
                   errClosed, collector, processingErr, closer, retErr, panicked,
                   usedDefault>>

\* pass 1 reached the end of the file: the schemas are built, the file is reset
EndPass1 ==
    /\ pc = "pass1" /\ ~panicked
    /\ pos > Len(input)
    /\ sourcetypeHeaderIdx' = [st \in DOMAIN columnUsage |-> IdxList(columnUsage[st])]
    /\ pc' = "pass2"
    /\ pos' = 1
    /\ UNCHANGED <<pubVars, fnVars>>
    /\ UNCHANGED <<header, input, columnUsage,
                   recordChannels, chClosed, writer, fs, records, errorChan,
                   errClosed, collector, processingErr, closer, retErr, panicked,
                   usedDefault>>

\* the writer goroutine of a sourcetype, as it is started
NewWriter(st) ==
    [pc |-> "create", colIndices |-> Get(sourcetypeHeaderIdx, st, <<>>),
     buf |-> <<>>, off |-> 0, err |-> NoErr, ioFailed |-> FALSE]

\* the select of the router finds room in the channel
SendNow(st, channels) ==
    /\ recordChannels' = Put(channels, st, Append(channels[st], input[pos]))
    /\ pos' = pos + 1
    /\ UNCHANGED <<pc, usedDefault>>

\* a default arm that gives the row up in place of waiting
SendDefaultDrop(st, channels) ==
    /\ recordChannels' = channels
    /\ pos' = pos + 1
    /\ usedDefault' = TRUE
    /\ UNCHANGED pc

\* the select of the router finds the channel full: the default arm
SendDefault(st, channels) ==
    /\ recordChannels' = channels
    /\ pc' = "blocked"
    /\ usedDefault' = TRUE
    /\ UNCHANGED pos

\* pass 2 reads one line and routes it
RouteRow ==
    /\ pc = "pass2" /\ ~panicked
    /\ pos <= Len(input)
    /\ IF Skipped(input[pos])
       THEN /\ pos' = pos + 1
            /\ UNCHANGED <<pc, recordChannels, writer, usedDefault>>
       ELSE LET st == SourcetypeOf(input[pos])
                isNew == st \notin DOMAIN recordChannels
                channels == IF isNew THEN Put(recordChannels, st, <<>>) ELSE recordChannels
            IN  /\ writer' = IF isNew THEN Put(writer, st, NewWriter(st)) ELSE writer
                /\ IF Len(channels[st]) < bufferSize
                   THEN SendNow(st, channels)
                   ELSE SendDefault(st, channels)
    /\ UNCHANGED <<pubVars, fnVars>>
    /\ UNCHANGED <<header, input, columnUsage, sourcetypeHeaderIdx,
                   chClosed, fs, records, errorChan,
                   errClosed, collector, processingErr, closer, retErr, panicked>>

\* the send of the default arm: it waits for room in the channel
BlockingSend ==
    /\ pc = "blocked" /\ ~panicked
    /\ LET st == SourcetypeOf(input[pos])
       IN  /\ Len(recordChannels[st]) < bufferSize
           /\ recordChannels' = Put(recordChannels, st, Append(recordChannels[st], input[pos]))
    /\ pos' = pos + 1
    /\ pc' = "pass2"
    /\ UNCHANGED <<pubVars, fnVars>>
    /\ UNCHANGED <<header, input, columnUsage, sourcetypeHeaderIdx,
                   chClosed, writer, fs, records, errorChan,
                   errClosed, collector, processingErr, closer, retErr, panicked,
                   usedDefault>>

\* pass 2 reached the end of the file
EndPass2 ==
    /\ pc = "pass2" /\ ~panicked
    /\ pos > Len(input)
    /\ pc' = "closing"
    /\ UNCHANGED <<pubVars, fnVars>>
    /\ UNCHANGED <<header, input, pos, columnUsage, sourcetypeHeaderIdx,
                   recordChannels, chClosed, writer, fs, records, errorChan,
                   errClosed, collector, processingErr, closer, retErr, panicked,
                   usedDefault>>

\* the router closes one record channel
CloseChannel(st) ==
    /\ pc = "closing" /\ ~panicked
    /\ st \in DOMAIN recordChannels /\ st \notin chClosed
    /\ chClosed' = chClosed \cup {st}
    /\ UNCHANGED <<pubVars, fnVars>>
    /\ UNCHANGED <<header, input, pc, pos, columnUsage, sourcetypeHeaderIdx,
                   recordChannels, writer, fs, records, errorChan,
                   errClosed, collector, processingErr, closer, retErr, panicked,
                   usedDefault>>

\* every channel is closed: the goroutine that closes errorChan is started
StartCloser ==
    /\ pc = "closing" /\ ~panicked
    /\ chClosed = DOMAIN recordChannels
    /\ closer' = "running"
    /\ pc' = "waitErr"
    /\ UNCHANGED <<pubVars, fnVars>>
    /\ UNCHANGED <<header, input, pos, columnUsage, sourcetypeHeaderIdx,
                   recordChannels, chClosed, writer, fs, records, errorChan,
                   errClosed, collector, processingErr, retErr, panicked, usedDefault>>

\* writerWg gets one Add and one Done per channel from this same goroutine,
\* so its Wait returns at once and errorChan is closed
CloserClose ==
    /\ closer = "running" /\ ~panicked
    /\ errClosed' = TRUE
    /\ closer' = "done"
    /\ UNCHANGED <<pubVars, fnVars>>
    /\ UNCHANGED <<header, input, pc, pos, columnUsage, sourcetypeHeaderIdx,
                   recordChannels, chClosed, writer, fs, records, errorChan,
                   collector, processingErr, retErr, panicked, usedDefault>>

\* the collector receives an error and keeps the first
CollectorRecv ==
    /\ collector = "running" /\ ~panicked
    /\ errorChan # <<>>
    /\ processingErr' = IF processingErr = nilError THEN Head(errorChan) ELSE processingErr
    /\ errorChan' = Tail(errorChan)
    /\ UNCHANGED <<pubVars, fnVars>>
    /\ UNCHANGED <<header, input, pc, pos, columnUsage, sourcetypeHeaderIdx,
                   recordChannels, chClosed, writer, fs, records,
                   errClosed, collector, closer, retErr, panicked, usedDefault>>

\* errorChan is closed and drained: the collector closes errorCollected
CollectorExit ==
    /\ collector = "running" /\ ~panicked
    /\ errorChan = <<>> /\ errClosed
    /\ collector' = "done"
    /\ UNCHANGED <<pubVars, fnVars>>
    /\ UNCHANGED <<header, input, pc, pos, columnUsage, sourcetypeHeaderIdx,
                   recordChannels, chClosed, writer, fs, records, errorChan,
                   errClosed, processingErr, closer, retErr, panicked, usedDefault>>

\* ProcessCSV receives from errorCollected and returns processingErr
Return ==
    /\ pc = "waitErr" /\ ~panicked
    /\ collector = "done"
    /\ pc' = "returned"
    /\ retErr' = processingErr
    /\ UNCHANGED <<pubVars, fnVars>>
    /\ UNCHANGED <<header, input, pos, columnUsage, sourcetypeHeaderIdx,
                   recordChannels, chClosed, writer, fs, records, errorChan,
                   errClosed, collector, processingErr, closer, panicked, usedDefault>>

-----------------------------------------------------------------------------
(* writeCSV, in the writer goroutine of one sourcetype *)

WriterAt(st, at) == st \in DOMAIN writer /\ writer[st].pc = at /\ ~panicked

\* Stats.IncrementRecord
IncrementRecord(st) == Put(records, st, Get(records, st, 0) + 1)

\* os.Create, then the header goes to the buffer; or os.Create fails
WriterCreate(st) ==
    /\ WriterAt(st, "create")
    /\ \/ /\ fs' = Put(fs, OutputFile(st), <<>>)
          /\ writer' = [writer EXCEPT ![st].pc = "loop",
                                      ![st].buf = <<HeaderList(writer[st].colIndices)>>]
       \/ /\ writer' = [writer EXCEPT ![st].pc = "report", ![st].err = "create"]
          /\ UNCHANGED fs
    /\ UNCHANGED <<pubVars, fnVars>>
    /\ UNCHANGED <<header, input, pc, pos, columnUsage, sourcetypeHeaderIdx,
                   recordChannels, chClosed, records, errorChan,
                   errClosed, collector, processingErr, closer, retErr, panicked,
                   usedDefault>>

\* the writer after csvWriter.Write of the filtered record succeeded
Written(st, record) ==
    [writer EXCEPT ![st].buf = Append(@, FilterRecord(record, writer[st].colIndices)),
                   ![st].pc = IF (Get(records, st, 0) + 1) % flushEvery = 0
                              THEN "flush" ELSE "loop"]

\* one round of the range loop: a record is received and written; the write
\* fails when an earlier flush of the buffer failed
WriterWrite(st) ==
    /\ WriterAt(st, "loop")
    /\ recordChannels[st] # <<>>
    /\ recordChannels' = [recordChannels EXCEPT ![st] = Tail(@)]
    /\ IF writer[st].ioFailed
       THEN /\ writer' = [writer EXCEPT ![st].pc = "report", ![st].err = "write"]
            /\ UNCHANGED records
       ELSE /\ writer' = Written(st, Head(recordChannels[st]))
            /\ records' = IncrementRecord(st)
    /\ UNCHANGED <<pubVars, fnVars>>
    /\ UNCHANGED <<header, input, pc, pos, columnUsage, sourcetypeHeaderIdx,
                   chClosed, fs, errorChan,
                   errClosed, collector, processingErr, closer, retErr, panicked,
                   usedDefault>>

\* the file after the writer's buffer is written at the writer's offset
Flushed(st) ==
    Put(fs, OutputFile(st), WriteAt(fs[OutputFile(st)], writer[st].off, writer[st].buf))

\* the periodic flush: the buffer reaches the file, or the write fails and
\* the error stays in the buffered writer (Flush's result is not looked at)
WriterFlush(st) ==
    /\ WriterAt(st, "flush")
    /\ \/ /\ fs' = Flushed(st)
          /\ writer' = [writer EXCEPT ![st].pc = "loop", ![st].buf = <<>>,
                                      ![st].off = @ + Len(writer[st].buf)]
       \/ /\ writer' = [writer EXCEPT ![st].pc = "loop", ![st].ioFailed = TRUE]
          /\ UNCHANGED fs
    /\ UNCHANGED <<pubVars, fnVars>>
    /\ UNCHANGED <<header, input, pc, pos, columnUsage, sourcetypeHeaderIdx,
                   recordChannels, chClosed, records, errorChan,
                   errClosed, collector, processingErr, closer, retErr, panicked,
                   usedDefault>>

\* the channel is closed and drained: writeCSV returns nil, its deferred
\* flushes run (their errors are dropped) and the goroutine ends
WriterFinish(st) ==
    /\ WriterAt(st, "loop")
    /\ recordChannels[st] = <<>> /\ st \in chClosed
    /\ \/ /\ ~writer[st].ioFailed
          /\ fs' = Flushed(st)
          /\ writer' = [writer EXCEPT ![st].pc = "done", ![st].buf = <<>>,
                                      ![st].off = @ + Len(writer[st].buf)]
       \/ /\ writer' = [writer EXCEPT ![st].pc = "done", ![st].ioFailed = TRUE]
          /\ UNCHANGED fs
    /\ UNCHANGED <<pubVars, fnVars>>
    /\ UNCHANGED <<header, input, pc, pos, columnUsage, sourcetypeHeaderIdx,
                   recordChannels, chClosed, records, errorChan,
                   errClosed, collector, processingErr, closer, retErr, panicked,
                   usedDefault>>

\* writeCSV returned an error: the goroutine sends it on errorChan, which
\* panics when errorChan is closed
WriterReport(st) ==
    /\ WriterAt(st, "report")
    /\ IF errClosed
       THEN /\ panicked' = TRUE
            /\ UNCHANGED <<errorChan, writer>>
       ELSE /\ Len(errorChan) < errorChanCap
            /\ errorChan' = Append(errorChan, <<writer[st].err, st>>)
            /\ writer' = [writer EXCEPT ![st].pc = "done"]
            /\ UNCHANGED panicked
    /\ UNCHANGED <<pubVars, fnVars>>
    /\ UNCHANGED <<header, input, pc, pos, columnUsage, sourcetypeHeaderIdx,
                   recordChannels, chClosed, fs, records,
                   errClosed, collector, processingErr, closer, retErr, usedDefault>>

-----------------------------------------------------------------------------
(* publish.Publisher *)

\* the defaults of NewPublisher
DefaultRetryCount == 3
DefaultConcurrency == 4
DefaultBatchSize == 100

\* the capacity of Publisher.errorChan
pubErrorChanCap == 100

\* the most files in the directory
MaxFiles == 2

\* the configurations and files drawn
RetryCounts == {0, 1}
Concurrencies == {1, 2}
BatchSizes == {0, 1}
EventCounts == {0, 2}

\* NewPublisher: non-positive settings get their defaults
NewPublisher(cfg) ==
    [cfg EXCEPT !.RetryCount = IF @ <= 0 THEN DefaultRetryCount ELSE @,
                !.Concurrency = IF @ <= 0 THEN DefaultConcurrency ELSE @,
                !.BatchSize = IF @ <= 0 THEN DefaultBatchSize ELSE @]

\* a CSV file of the directory: how many events TransformCSV makes of it, or
\* that it cannot be opened or transformed
Files == [events : EventCounts, readable : {TRUE}] \cup {[events |-> 0, readable |-> FALSE]}

NoRead == [ProcessedFiles |-> 0, TotalEvents |-> 0, PublishedEvents |-> 0, FailedEvents |-> 0]

\* a worker goroutine before it has received a file
IdleWorker == [pc |-> "idle", file |-> 0, i |-> 0, retry |-> 0, rd |-> NoRead]

\* the state while no function is applied on its own
FnIdle == arg = <<>> /\ ret = <<>>

\* the state while no Publisher runs
PubIdle ==
    /\ config = NewPublisher([RetryCount |-> 0, Concurrency |-> 1, BatchSize |-> 0, DryRun |-> FALSE])
    /\ files = <<>>
    /\ pubPc = "none"
    /\ fed = 0
    /\ filesCh = <<>>
    /\ filesClosed = FALSE
    /\ worker = EmptyMap
    /\ progress = [TotalFiles |-> 0, ProcessedFiles |-> 0, TotalEvents |-> 0,
                   PublishedEvents |-> 0, FailedEvents |-> 0, CurrentFile |-> 0]
    /\ sink = EmptyMap
    /\ fileResult = EmptyMap
    /\ pubErrorChan = <<>>
    /\ pubRet = nilError

\* the state while ProcessCSV does not run
SplitIdle ==
    /\ header = Header1
    /\ input = <<>>
    /\ pc = "none"
    /\ pos = 1
    /\ columnUsage = EmptyMap
    /\ sourcetypeHeaderIdx = EmptyMap
    /\ recordChannels = EmptyMap
    /\ chClosed = {}
    /\ writer = EmptyMap
    /\ fs = EmptyMap
    /\ records = EmptyMap
    /\ errorChan = <<>>
    /\ errClosed = FALSE
    /\ collector = "none"
    /\ processingErr = nilError
    /\ closer = "none"
    /\ retErr = nilError
    /\ panicked = FALSE
    /\ usedDefault = FALSE

\* a Publisher as NewPublisher makes it, and a directory
PubInit ==
    /\ \E r \in RetryCounts, c \in Concurrencies, b \in BatchSizes, d \in BOOLEAN :
          config = NewPublisher([RetryCount |-> r, Concurrency |-> c, BatchSize |-> b, DryRun |-> d])
    /\ files \in SeqsUpTo(Files, MaxFiles)
    /\ pubPc = "start"
    /\ fed = 0
    /\ filesCh = <<>>
    /\ filesClosed = FALSE
    /\ worker = EmptyMap
    /\ progress = [TotalFiles |-> 0, ProcessedFiles |-> 0, TotalEvents |-> 0,
                   PublishedEvents |-> 0, FailedEvents |-> 0, CurrentFile |-> 0]
    /\ sink = EmptyMap
    /\ fileResult = EmptyMap
    /\ pubErrorChan = <<>>
    /\ pubRet = nilError
    /\ SplitIdle
    /\ FnIdle

\* an error an earlier call of PublishDirectory left on errorChan
EarlierError == <<"error processing a file of an earlier call", 0>>

\* the same Publisher at its next call, after a call on a directory of two
\* files that could not be opened: one error was returned and one is left on
\* errorChan; TotalFiles is 2 and no other counter was touched
PubAgainInit ==
    /\ \E r \in RetryCounts, c \in Concurrencies, b \in BatchSizes, d \in BOOLEAN :
          config = NewPublisher([RetryCount |-> r, Concurrency |-> c, BatchSize |-> b, DryRun |-> d])
    /\ files \in SeqsUpTo(Files, MaxFiles)
    /\ pubPc = "start"
    /\ fed = 0
    /\ filesCh = <<>>
    /\ filesClosed = FALSE
    /\ worker = EmptyMap
    /\ progress = [TotalFiles |-> 2, ProcessedFiles |-> 0, TotalEvents |-> 0,
                   PublishedEvents |-> 0, FailedEvents |-> 0, CurrentFile |-> 0]
    /\ sink = EmptyMap
    /\ fileResult = EmptyMap
    /\ pubErrorChan = <<EarlierError>>
    /\ pubRet = nilError
    /\ SplitIdle
    /\ FnIdle

\* a PublishDirectory that takes an empty directory for work done
PubNoFilesSilent ==
    /\ pubPc = "start"
    /\ Len(files) = 0
    /\ pubPc' = "returned"
    /\ pubRet' = nilError
    /\ UNCHANGED <<config, files, fed, filesCh, filesClosed, worker, progress,
                   sink, fileResult, pubErrorChan>>
    /\ UNCHANGED <<splitVars, fnVars>>

\* PublishDirectory finds no CSV file
PubNoFiles ==
    /\ pubPc = "start"
    /\ Len(files) = 0
    /\ pubPc' = "returned"
    /\ pubRet' = <<"no CSV files found">>
    /\ UNCHANGED <<config, files, fed, filesCh, filesClosed, worker, progress,
                   sink, fileResult, pubErrorChan>>
    /\ UNCHANGED <<splitVars, fnVars>>

\* PublishDirectory sets TotalFiles and starts the workers
PubStartWorkers ==
    /\ pubPc = "start"
    /\ Len(files) > 0
    /\ progress' = [progress EXCEPT !.TotalFiles = Len(files)]
    /\ worker' = [w \in 1..config.Concurrency |-> IdleWorker]
    /\ pubPc' = "feeding"
    /\ UNCHANGED <<config, files, fed, filesCh, filesClosed,
                   sink, fileResult, pubErrorChan, pubRet>>
    /\ UNCHANGED <<splitVars, fnVars>>

\* PublishDirectory puts the next file on filesCh
PubFeed ==
    /\ pubPc = "feeding"
    /\ fed < Len(files)
    /\ filesCh' = Append(filesCh, fed + 1)
    /\ fed' = fed + 1
    /\ UNCHANGED <<config, files, pubPc, filesClosed, worker, progress,
                   sink, fileResult, pubErrorChan, pubRet>>
    /\ UNCHANGED <<splitVars, fnVars>>

\* a PublishDirectory that waits without closing filesCh
PubLeaveFilesOpen ==
    /\ pubPc = "feeding"
    /\ fed = Len(files)
    /\ pubPc' = "waiting"
    /\ UNCHANGED <<config, files, fed, filesCh, filesClosed, worker, progress,
                   sink, fileResult, pubErrorChan, pubRet>>
    /\ UNCHANGED <<splitVars, fnVars>>

\* every file is on filesCh: PublishDirectory closes it and waits
PubCloseFiles ==
    /\ pubPc = "feeding"
    /\ fed = Len(files)
    /\ filesClosed' = TRUE
    /\ pubPc' = "waiting"
    /\ UNCHANGED <<config, files, fed, filesCh, worker, progress,
                   sink, fileResult, pubErrorChan, pubRet>>
    /\ UNCHANGED <<splitVars, fnVars>>

\* every worker has ended: PublishDirectory returns an error of errorChan, if any
PubReturn ==
    /\ pubPc = "waiting"
    /\ \A w \in DOMAIN worker : worker[w].pc = "exited"
    /\ pubPc' = "returned"
    /\ IF pubErrorChan # <<>>
       THEN pubRet' = Head(pubErrorChan) /\ pubErrorChan' = Tail(pubErrorChan)
       ELSE pubRet' = nilError /\ UNCHANGED pubErrorChan
    /\ UNCHANGED <<config, files, fed, filesCh, filesClosed, worker, progress,
                   sink, fileResult>>
    /\ UNCHANGED <<splitVars, fnVars>>

WorkerAt(w, at) == w \in DOMAIN worker /\ worker[w].pc = at

\* the events of the file a worker holds, and its current batch
EventsOf(w) == files[worker[w].file].events
BatchEnd(w) ==
    IF worker[w].i + config.BatchSize > EventsOf(w) THEN EventsOf(w)
    ELSE worker[w].i + config.BatchSize
BatchLen(w) == BatchEnd(w) - worker[w].i

\* a receive that leaves the file on filesCh for the next receiver
WorkerRecvPeek(w) ==
    /\ WorkerAt(w, "idle")
    /\ filesCh # <<>>
    /\ worker' = [worker EXCEPT ![w].pc = "transform", ![w].file = Head(filesCh)]
    /\ UNCHANGED <<config, files, pubPc, fed, filesCh, filesClosed, progress,
                   sink, fileResult, pubErrorChan, pubRet>>
    /\ UNCHANGED <<splitVars, fnVars>>

\* the worker receives a file from filesCh
WorkerRecv(w) ==
    /\ WorkerAt(w, "idle")
    /\ filesCh # <<>>
    /\ worker' = [worker EXCEPT ![w].pc = "transform", ![w].file = Head(filesCh)]
    /\ filesCh' = Tail(filesCh)
    /\ UNCHANGED <<config, files, pubPc, fed, filesClosed, progress,
                   sink, fileResult, pubErrorChan, pubRet>>
    /\ UNCHANGED <<splitVars, fnVars>>

\* filesCh is closed and empty: the worker ends
WorkerExit(w) ==
    /\ WorkerAt(w, "idle")
    /\ filesCh = <<>> /\ filesClosed
    /\ worker' = [worker EXCEPT ![w].pc = "exited"]
    /\ UNCHANGED <<config, files, pubPc, fed, filesCh, filesClosed, progress,
                   sink, fileResult, pubErrorChan, pubRet>>
    /\ UNCHANGED <<splitVars, fnVars>>

\* a worker that ends when processFile returns an error
AfterErrorExit(w) == [worker EXCEPT ![w] = [IdleWorker EXCEPT !.pc = "exited"]]

\* the worker after processFile returned an error: it goes on with the next file
AfterError(w) == [worker EXCEPT ![w] = IdleWorker]

\* the error the worker makes of what processFile returned for file f
FileError(f) == <<"error processing file", f>>

\* processFile returned an error: the worker's select puts it on errorChan
\* when there is room
ReturnError(w) ==
    /\ fileResult' = Put(fileResult, worker[w].file, "error")
    /\ pubErrorChan' = IF Len(pubErrorChan) < pubErrorChanCap
                       THEN Append(pubErrorChan, FileError(worker[w].file))
                       ELSE pubErrorChan
    /\ worker' = AfterError(w)

\* processFile returned nil
ReturnNil(w) ==
    /\ fileResult' = Put(fileResult, worker[w].file, "ok")
    /\ worker' = [worker EXCEPT ![w] = IdleWorker]
    /\ UNCHANGED pubErrorChan

\* os.Open and TransformCSV
Transform(w) ==
    /\ WorkerAt(w, "transform")
    /\ IF files[worker[w].file].readable
       THEN /\ worker' = [worker EXCEPT ![w].pc = "rdTotal"]
            /\ UNCHANGED <<fileResult, pubErrorChan>>
       ELSE ReturnError(w)
    /\ UNCHANGED <<config, files, pubPc, fed, filesCh, filesClosed, progress,
                   sink, pubRet>>
    /\ UNCHANGED <<splitVars, fnVars>>

\* the arguments of an UpdateProgress call are read from Progress, without its lock
ReadStates == {"rdTotal", "rdDry", "rdOK", "rdFail", "rdDone"}
WriteStateOf(at) ==
    CASE at = "rdTotal" -> "wrTotal" [] at = "rdDry" -> "wrDry" [] at = "rdOK" -> "wrOK"
      [] at = "rdFail" -> "wrFail" [] at = "rdDone" -> "wrDone"

ReadProgress(w) ==
    /\ w \in DOMAIN worker /\ worker[w].pc \in ReadStates
    /\ worker' = [worker EXCEPT
                    ![w].pc = WriteStateOf(worker[w].pc),
                    ![w].rd = [ProcessedFiles |-> progress.ProcessedFiles,
                               TotalEvents |-> progress.TotalEvents,
                               PublishedEvents |-> progress.PublishedEvents,
                               FailedEvents |-> progress.FailedEvents]]
    /\ UNCHANGED <<config, files, pubPc, fed, filesCh, filesClosed, progress,
                   sink, fileResult, pubErrorChan, pubRet>>
    /\ UNCHANGED <<splitVars, fnVars>>

\* Progress.UpdateProgress, under the lock
UpdateProgress(processedFiles, totalEvents, publishedEvents, failedEvents, currentFile) ==
    progress' = [progress EXCEPT !.ProcessedFiles = processedFiles,
                                 !.TotalEvents = totalEvents,
                                 !.PublishedEvents = publishedEvents,
                                 !.FailedEvents = failedEvents,
                                 !.CurrentFile = currentFile]

\* where processFile goes once the batch at i is the next one
LoopFrom(w, i) ==
    [worker EXCEPT ![w].pc = IF i < EventsOf(w) THEN "send" ELSE "rdDone",
                   ![w].i = i, ![w].retry = 0, ![w].rd = NoRead]

\* the file's events are added to TotalEvents
WriteTotal(w) ==
    /\ WorkerAt(w, "wrTotal")
    /\ UpdateProgress(worker[w].rd.ProcessedFiles, worker[w].rd.TotalEvents + EventsOf(w),
                      worker[w].rd.PublishedEvents, worker[w].rd.FailedEvents, worker[w].file)
    /\ worker' = IF config.DryRun
                 THEN [worker EXCEPT ![w].pc = "rdDry", ![w].rd = NoRead]
                 ELSE LoopFrom(w, 0)
    /\ UNCHANGED <<config, files, pubPc, fed, filesCh, filesClosed,
                   sink, fileResult, pubErrorChan, pubRet>>
    /\ UNCHANGED <<splitVars, fnVars>>

\* dry run: the events are counted as published and the file as processed
WriteDryRun(w) ==
    /\ WorkerAt(w, "wrDry")
    /\ UpdateProgress(worker[w].rd.ProcessedFiles + 1, worker[w].rd.TotalEvents,
                      worker[w].rd.PublishedEvents + EventsOf(w), worker[w].rd.FailedEvents, 0)
    /\ ReturnNil(w)
    /\ UNCHANGED <<config, files, pubPc, fed, filesCh, filesClosed, sink, pubRet>>
    /\ UNCHANGED <<splitVars, fnVars>>

\* how many times the sink has accepted a batch
SinkOf(f, i) == Get(sink, <<f, i>>, 0)

\* the worker after an attempt failed: the next attempt, or the loop is left
\* with sendErr set (retry is the loop's own variable)
AfterFailedSend(w) ==
    IF worker[w].retry + 1 < config.RetryCount
    THEN [worker EXCEPT ![w].retry = @ + 1]
    ELSE [worker EXCEPT ![w].retry = 0, ![w].pc = "rdFail"]

\* the worker after an attempt succeeded: the retry loop is left
AfterSend(w) == [worker EXCEPT ![w].pc = "rdOK", ![w].retry = 0]

\* one attempt of the retry loop: HECClient.SendEvents succeeds or fails
Send(w) ==
    /\ WorkerAt(w, "send")
    /\ LET at == <<worker[w].file, worker[w].i>>
       IN  \/ /\ sink' = Put(sink, at, SinkOf(at[1], at[2]) + 1)
              /\ worker' = AfterSend(w)
           \/ /\ sink' = Put(sink, at, SinkOf(at[1], at[2]))
              /\ worker' = AfterFailedSend(w)
    /\ UNCHANGED <<config, files, pubPc, fed, filesCh, filesClosed, progress,
                   fileResult, pubErrorChan, pubRet>>
    /\ UNCHANGED <<splitVars, fnVars>>

\* the batch was sent: its events are added to PublishedEvents
WritePublished(w) ==
    /\ WorkerAt(w, "wrOK")
    /\ UpdateProgress(worker[w].rd.ProcessedFiles, worker[w].rd.TotalEvents,
                      worker[w].rd.PublishedEvents + BatchLen(w), worker[w].rd.FailedEvents,
                      worker[w].file)
    /\ worker' = LoopFrom(w, worker[w].i + config.BatchSize)
    /\ UNCHANGED <<config, files, pubPc, fed, filesCh, filesClosed,
                   sink, fileResult, pubErrorChan, pubRet>>
    /\ UNCHANGED <<splitVars, fnVars>>

\* the batch exhausted its retries: its events are added to FailedEvents and
\* processFile returns the error
WriteFailed(w) ==
    /\ WorkerAt(w, "wrFail")
    /\ UpdateProgress(worker[w].rd.ProcessedFiles, worker[w].rd.TotalEvents,
                      worker[w].rd.PublishedEvents, worker[w].rd.FailedEvents + BatchLen(w),
                      worker[w].file)
    /\ ReturnError(w)
    /\ UNCHANGED <<config, files, pubPc, fed, filesCh, filesClosed, sink, pubRet>>
    /\ UNCHANGED <<splitVars, fnVars>>

\* every batch was sent: the file is marked as processed
WriteProcessed(w) ==
    /\ WorkerAt(w, "wrDone")
    /\ UpdateProgress(worker[w].rd.ProcessedFiles + 1, worker[w].rd.TotalEvents,
                      worker[w].rd.PublishedEvents, worker[w].rd.FailedEvents, 0)
    /\ ReturnNil(w)
    /\ UNCHANGED <<config, files, pubPc, fed, filesCh, filesClosed, sink, pubRet>>
    /\ UNCHANGED <<splitVars, fnVars>>

-----------------------------------------------------------------------------
(* The specifications. *)

SplitNext ==
    \/ MissingColumn
    \/ StartPass1
    \/ ResetFailsPass1
    \/ AnalyzeRow
    \/ ResetFailsPass2
    \/ EndPass1
    \/ RouteRow
    \/ BlockingSend
    \/ EndPass2
    \/ \E st \in DOMAIN recordChannels : CloseChannel(st)
    \/ StartCloser
    \/ CloserClose
    \/ CollectorRecv
    \/ CollectorExit
    \/ Return
    \/ \E st \in DOMAIN writer : WriterCreate(st)
    \/ \E st \in DOMAIN writer : WriterWrite(st)
    \/ \E st \in DOMAIN writer : WriterFlush(st)
    \/ \E st \in DOMAIN writer : WriterFinish(st)
    \/ \E st \in DOMAIN writer : WriterReport(st)

PubNext ==
    \/ PubNoFiles
    \/ PubStartWorkers
    \/ PubFeed
    \/ PubCloseFiles
    \/ PubReturn
    \/ \E w \in DOMAIN worker : WorkerRecv(w)
    \/ \E w \in DOMAIN worker : WorkerExit(w)
    \/ \E w \in DOMAIN worker : Transform(w)
    \/ \E w \in DOMAIN worker : ReadProgress(w)
    \/ \E w \in DOMAIN worker : WriteTotal(w)
    \/ \E w \in DOMAIN worker : WriteDryRun(w)
    \/ \E w \in DOMAIN worker : Send(w)
    \/ \E w \in DOMAIN worker : WritePublished(w)
    \/ \E w \in DOMAIN worker : WriteFailed(w)
    \/ \E w \in DOMAIN worker : WriteProcessed(w)

\* one run of split.ProcessCSV
Init == SplitInit /\ PubIdle /\ FnIdle
Next == SplitNext
Spec == Init /\ [][Next]_vars

\* one call of Publisher.PublishDirectory
PubSpec == PubInit /\ [][PubNext]_vars

\* a later call of Publisher.PublishDirectory on the same Publisher
PubAgainSpec == PubAgainInit /\ [][PubNext]_vars


-----------------------------------------------------------------------------
(* What the input asks of the output. *)

\* the records of the first n lines that are not skipped and have sourcetype st
RECURSIVE RowsFor(_, _)
RowsFor(st, n) ==
    IF n = 0 THEN <<>>
    ELSE IF ~Skipped(input[n]) /\ SourcetypeOf(input[n]) = st
         THEN Append(RowsFor(st, n - 1), input[n])
         ELSE RowsFor(st, n - 1)

\* the sourcetypes of the input
InputKeys == {SourcetypeOf(input[n]) : n \in {m \in 1..Len(input) : ~Skipped(input[m])}}

\* the lines pass 2 has routed: sent to a channel, or skipped
Routed ==
    CASE pc \in {"pass2", "blocked"} -> pos - 1
      [] pc \in {"closing", "waitErr", "returned"} -> Len(input)
      [] OTHER -> 0

Drop(s, n) == SubSeq(s, n + 1, Len(s))

RECURSIVE FilterAll(_, _)
FilterAll(rows, colIndices) ==
    IF rows = <<>> THEN <<>>
    ELSE <<FilterRecord(Head(rows), colIndices)>> \o FilterAll(Tail(rows), colIndices)

\* the table the input asks for sourcetype st: its header line, then its rows
ExpectedTable(st) ==
    LET colIndices == IdxList(Get(columnUsage, st, {}))
    IN  <<HeaderList(colIndices)>> \o FilterAll(RowsFor(st, Len(input)), colIndices)

\* the data rows the output files hold, each with its file: a bag
WrittenRows ==
    LET places == UNION {{<<f, i>> : i \in 2..Len(fs[f])} : f \in DOMAIN fs}
        rows == {<<p[1], fs[p[1]][p[2]]>> : p \in places}
    IN  [r \in rows |-> Cardinality({p \in places : <<p[1], fs[p[1]][p[2]]>> = r})]

\* the non-skipped rows of the input, each filtered for and with the file of
\* its sourcetype: a bag
ExpectedRows ==
    LET places == UNION {{<<st, i>> : i \in 2..Len(ExpectedTable(st))} : st \in InputKeys}
        rowAt(p) == <<OutputFile(p[1]), ExpectedTable(p[1])[p[2]]>>
        rows == {rowAt(p) : p \in places}
    IN  [r \in rows |-> Cardinality({p \in places : rowAt(p) = r})]

WritersDone == \A st \in DOMAIN writer : writer[st].pc = "done"
WriterFailed(st) == writer[st].err # NoErr \/ writer[st].ioFailed
NoWriterFailed == \A st \in DOMAIN writer : ~WriterFailed(st)
SplitFinished == pc = "returned" /\ sourcetypeIdx # 0 /\ WritersDone

\* two sourcetypes of the input have the same output file
Collision == \E a, b \in InputKeys : a # b /\ OutputFile(a) = OutputFile(b)

-----------------------------------------------------------------------------
(* The claims. *)

\* C1: once pass 2 and all writers have finished without a writer failure,
\* the rows the output files hold are, as a multiset, the non-skipped input
\* rows, each filtered for its sourcetype and in the file of its sourcetype.
C1_AllRowsWritten ==
    (SplitFinished /\ NoWriterFailed) => WrittenRows = ExpectedRows

\* the same for inputs in which no two sourcetypes share an output file
C1_AllRowsWrittenNoCollision ==
    (SplitFinished /\ NoWriterFailed /\ ~Collision) => WrittenRows = ExpectedRows

\* C2: for every sourcetype, the data rows of its output table are in the
\* order in which the input holds the rows of that sourcetype.
C2_TableInInputOrder ==
    (SplitFinished /\ NoWriterFailed) =>
        \A st \in DOMAIN writer : fs[OutputFile(st)] = ExpectedTable(st)

\* the same for inputs in which no two sourcetypes share an output file
C2_TableInInputOrderNoCollision ==
    (SplitFinished /\ NoWriterFailed /\ ~Collision) =>
        \A st \in DOMAIN writer : fs[OutputFile(st)] = ExpectedTable(st)

\* C3: when ProcessCSV has returned after pass 2, every writer goroutine has
\* ended (and so has flushed its buffer).
C3_ReturnAfterWriters ==
    (pc = "returned" /\ sourcetypeIdx # 0) => WritersDone

\* C4: when a writer has failed, ProcessCSV does not return nil.
C4_WriterFailureReturned ==
    (pc = "returned" /\ \E st \in DOMAIN writer : writer[st].err # NoErr)
        => retErr # nilError

\* C5: after a writer failed, ProcessCSV has returned or some goroutine can
\* still take a step: the router is not left waiting on a channel nobody reads.
C5_RouterNotStuck ==
    ((\E st \in DOMAIN writer : writer[st].err # NoErr) /\ ~panicked)
        => (pc = "returned" \/ ENABLED Next)

\* the records of sourcetype st its writer has received from the channel
Received(st) == Get(records, st, 0) + (IF writer[st].err = "write" THEN 1 ELSE 0)

\* C6: no row is discarded, duplicated or sent to another sourcetype's
\* channel: every channel holds, in order, exactly the routed rows of its
\* sourcetype that its writer has not yet received, also after the channel
\* was found full.
C6_NoRowDropped ==
    /\ \A st \in InputKeys : RowsFor(st, Routed) # <<>> => st \in DOMAIN recordChannels
    /\ \A st \in DOMAIN recordChannels :
          /\ Len(recordChannels[st]) <= bufferSize
          /\ recordChannels[st] = Drop(RowsFor(st, Routed), Received(st))

\* the router found a channel full, waited, and sent the row
C6_Witness == usedDefault /\ pc = "closing"

\* the data rows in the buffer of a writer: all but the header line
BufferedRows(st) ==
    IF writer[st].off = 0 /\ writer[st].buf # <<>> THEN Tail(writer[st].buf)
    ELSE writer[st].buf

\* st is the only sourcetype that writes its output file
OwnsFile(st) == \A other \in DOMAIN writer : other # st => OutputFile(other) # OutputFile(st)

\* C7: every data row a writer writes has exactly as many fields as the
\* schema of its sourcetype, and every column of the schema is non-empty in
\* some row of that sourcetype.
C7_RowsMatchSchema ==
    \A st \in DOMAIN writer :
        LET colIndices == writer[st].colIndices
            f == OutputFile(st)
        IN  /\ colIndices = sourcetypeHeaderIdx[st]
            /\ \A i \in 1..Len(BufferedRows(st)) :
                  Len(BufferedRows(st)[i]) = Len(colIndices)
            /\ (OwnsFile(st) /\ f \in DOMAIN fs) =>
                  \A i \in 2..Len(fs[f]) : Len(fs[f][i]) = Len(colIndices)
            /\ \A j \in 1..Len(colIndices) :
                  \E n \in 1..Len(input) :
                      /\ ~Skipped(input[n]) /\ SourcetypeOf(input[n]) = st
                      /\ input[n][colIndices[j]] # Empty

\* a finished table whose schema leaves a header column out
C7_Witness ==
    \E st \in DOMAIN writer :
        /\ writer[st].pc = "done" /\ ~WriterFailed(st) /\ OwnsFile(st)
        /\ Len(writer[st].colIndices) < Len(header)
        /\ Len(fs[OutputFile(st)]) >= 2

-----------------------------------------------------------------------------
(* Publisher.processFile: retries and failed batches *)

\* the batch of its file a worker is at
BatchOf(w) == <<worker[w].file, worker[w].i>>

\* the step of a worker from one place of processFile to another
Step(w, from, to) == WorkerAt(w, from) /\ worker'[w].pc = to

\* the attempts of the retry loop: an attempt is made only while retry, the
\* attempts that failed so far, is below RetryCount and the sink has not
\* accepted the batch; the loop gives up at the attempt that makes RetryCount
Attempts(w) ==
    /\ WorkerAt(w, "send") =>
          worker[w].retry < config.RetryCount /\ SinkOf(worker[w].file, worker[w].i) = 0
    /\ Step(w, "send", "rdOK") => sink'[BatchOf(w)] = 1
    /\ Step(w, "send", "rdFail") =>
          worker[w].retry + 1 = config.RetryCount /\ sink'[BatchOf(w)] = 0
    /\ (WorkerAt(w, "send") /\ worker'[w].pc = "send" /\ worker'[w] # worker[w]) =>
          worker'[w].retry = worker[w].retry + 1 /\ sink'[BatchOf(w)] = 0

\* after the sink accepted the batch, processFile reports no error and goes
\* on with the next batch of the file, or marks the file as processed
NextBatch(w) ==
    WorkerAt(w, "wrOK") =>
        /\ worker'[w].file = worker[w].file
        /\ worker'[w].i = worker[w].i + config.BatchSize
        /\ worker'[w].pc = IF worker'[w].i < EventsOf(w) THEN "send" ELSE "rdDone"
        /\ UNCHANGED <<fileResult, pubErrorChan>>

\* the retry loop makes exactly k+1 attempts when attempt k+1 succeeds and
\* RetryCount attempts when none does, and a delivered batch is followed by
\* the next one without an error
RetryLoop ==
    [][\A w \in DOMAIN worker :
          (w \in DOMAIN worker' /\ worker'[w] # worker[w]) => Attempts(w) /\ NextBatch(w)]_vars

\* C8: a batch the sink accepts at attempt k+1, k < RetryCount, gets exactly
\* k+1 attempts; its events are added to PublishedEvents once and none to
\* FailedEvents; no error is reported and processFile goes on with the next
\* batch.
C8_RetryThenPublished ==
    [][\A w \in DOMAIN worker :
          (w \in DOMAIN worker' /\ worker'[w] # worker[w]) =>
              /\ Attempts(w)
              /\ NextBatch(w)
              /\ WorkerAt(w, "wrOK") =>
                    /\ progress'.PublishedEvents = progress.PublishedEvents + BatchLen(w)
                    /\ progress'.FailedEvents = progress.FailedEvents]_vars

\* C9: a batch the sink never accepts gets exactly RetryCount attempts; then
\* the file is reported as failed, the batch's events are added to
\* FailedEvents and PublishedEvents does not grow.
C9_ExhaustedThenFailed ==
    [][\A w \in DOMAIN worker :
          (w \in DOMAIN worker' /\ worker'[w] # worker[w]) =>
              /\ Attempts(w)
              /\ WorkerAt(w, "wrFail") =>
                    /\ fileResult' = Put(fileResult, worker[w].file, "error")
                    /\ progress'.FailedEvents = progress.FailedEvents + BatchLen(w)
                    /\ progress'.PublishedEvents = progress.PublishedEvents]_vars

\* the file is reported as failed after exactly RetryCount attempts
ExhaustedThenReported ==
    [][\A w \in DOMAIN worker :
          (w \in DOMAIN worker' /\ worker'[w] # worker[w]) =>
              /\ Attempts(w)
              /\ WorkerAt(w, "wrFail") =>
                    fileResult' = Put(fileResult, worker[w].file, "error")]_vars

\* the batches of a file: the indices the loop of processFile takes
BatchesOf(f) == {i \in 0..(files[f].events - 1) : i % config.BatchSize = 0}

\* the batch at i of file f exhausted its retries
Exhausted(f, i) ==
    \/ \E w \in DOMAIN worker : worker[w].pc \in {"rdFail", "wrFail"} /\ BatchOf(w) = <<f, i>>
    \/ /\ f \in DOMAIN fileResult /\ fileResult[f] = "error"
       /\ <<f, i>> \in DOMAIN sink /\ sink[<<f, i>>] = 0

\* the files processFile returned nil for
FilesOK == {f \in DOMAIN fileResult : fileResult[f] = "ok"}

\* C10: after a batch of a file exhausts its retries no later batch of the
\* file is sent and the file is not counted as processed; every other file
\* of the queue is still processed to its own end.
C10_FailureAbortsOnlyItsFile ==
    /\ \A f \in 1..Len(files) : \A i \in BatchesOf(f) :
          Exhausted(f, i) =>
              /\ \A j \in BatchesOf(f) : j > i => <<f, j>> \notin DOMAIN sink
              /\ f \notin FilesOK
              /\ \A w \in DOMAIN worker :
                    worker[w].file = f => worker[w].pc \in {"rdFail", "wrFail"}
    /\ progress.ProcessedFiles <= Cardinality(FilesOK)
    /\ (pubPc = "returned" /\ files # <<>>) =>
          \A f \in 1..Len(files) :
              /\ f \in DOMAIN fileResult
              /\ fileResult[f] = "ok" =>
                    \A i \in BatchesOf(f) :
                        SinkOf(f, i) = (IF config.DryRun THEN 0 ELSE 1)
              /\ fileResult[f] = "error" =>
                    \/ ~files[f].readable
                    \/ \E i \in BatchesOf(f) : Exhausted(f, i)

\* the first batch of the first file exhausted its retries with a batch left,
\* and the one worker went on to deliver the second file
C10_Witness ==
    /\ pubPc = "returned"
    /\ config.Concurrency = 1
    /\ Len(files) = 2
    /\ Exhausted(1, 0) /\ Cardinality(BatchesOf(1)) > 1
    /\ 2 \in FilesOK /\ files[2].events > 0
    /\ progress.ProcessedFiles = 1

-----------------------------------------------------------------------------
(* Publisher.PublishDirectory and Publisher.worker: the work queue *)

\* the workers that hold file f, and the places of filesCh that hold it
Holders(f) == {w \in DOMAIN worker : worker[w].file = f}
Queued(f) == {n \in 1..Len(filesCh) : filesCh[n] = f}

\* C11: a file put on filesCh is received by at most one worker and
\* processed at most once: a fed file is at one place only, on filesCh, with
\* one worker, or done with, and a file not yet fed is at none.
C11_FileReceivedOnce ==
    \A f \in 1..Len(files) :
        Cardinality(Holders(f)) + Cardinality(Queued(f))
            + (IF f \in DOMAIN fileResult THEN 1 ELSE 0)
          = (IF f <= fed THEN 1 ELSE 0)

\* two workers are at work, each on a file of its own
C11_Witness ==
    /\ Len(files) = 2
    /\ \E v, w \in DOMAIN worker :
          v # w /\ worker[v].file = 1 /\ worker[w].file = 2

-----------------------------------------------------------------------------
(* Progress: the counters against what the workers did *)

RECURSIVE SumSeq(_)
SumSeq(s) == IF s = <<>> THEN 0 ELSE Head(s) + SumSeq(Tail(s))

\* len(batch) of the batch at i of file f
BatchLenAt(f, i) ==
    IF i + config.BatchSize > files[f].events THEN files[f].events - i
    ELSE config.BatchSize

\* the events of the batches of file f the sink accepted
DeliveredOf(f) ==
    SumSeq([n \in 1..files[f].events |->
              IF (n - 1) \in BatchesOf(f) /\ SinkOf(f, n - 1) > 0
              THEN BatchLenAt(f, n - 1) ELSE 0])

\* the events of the batches of file f that exhausted their retries
ExhaustedOf(f) ==
    SumSeq([n \in 1..files[f].events |->
              IF (n - 1) \in BatchesOf(f) /\ Exhausted(f, n - 1)
              THEN BatchLenAt(f, n - 1) ELSE 0])

\* what the counters are to hold once every worker has ended
TransformedEvents ==
    SumSeq([f \in 1..Len(files) |->
              IF f \in DOMAIN fileResult /\ files[f].readable THEN files[f].events ELSE 0])
DeliveredEvents ==
    SumSeq([f \in 1..Len(files) |->
              IF config.DryRun THEN (IF f \in FilesOK THEN files[f].events ELSE 0)
              ELSE DeliveredOf(f)])
ExhaustedEvents == SumSeq([f \in 1..Len(files) |-> ExhaustedOf(f)])

WorkersDone == worker # EmptyMap /\ \A w \in DOMAIN worker : worker[w].pc = "exited"

CountersExact ==
    /\ progress.ProcessedFiles = Cardinality(FilesOK)
    /\ progress.TotalEvents = TransformedEvents
    /\ progress.PublishedEvents = DeliveredEvents
    /\ progress.FailedEvents = ExhaustedEvents

\* C12: after every worker has ended, ProcessedFiles is the number of files
\* without error, TotalEvents the events of the transformed files,
\* PublishedEvents the events of the delivered batches and FailedEvents the
\* events of the batches that exhausted their retries: no update is lost.
C12_CountersExact == WorkersDone => CountersExact

\* with one worker the counters are exact
C12_CountersExactOneWorker == (WorkersDone /\ config.Concurrency = 1) => CountersExact

\* the errors of the files that failed in this call
FailedFiles == {f \in DOMAIN fileResult : fileResult[f] = "error"}

\* C13: PublishDirectory returns only after every worker has ended and
\* filesCh is empty; when a file failed in the call it returns an error, the
\* first on errorChan, and nil otherwise.
C13_ReturnsFirstError ==
    (pubPc = "returned" /\ files # <<>>) =>
        /\ WorkersDone
        /\ filesCh = <<>> /\ fed = Len(files)
        /\ IF FailedFiles = {} THEN pubRet = nilError ELSE pubRet # nilError

\* on a Publisher that was not used before, the error returned is that of a
\* file that failed in the call, and it is taken off errorChan
ReturnsErrorOfCall ==
    (pubPc = "returned" /\ FailedFiles # {}) =>
        /\ \E f \in FailedFiles : pubRet = FileError(f)
        /\ \A n \in 1..Len(pubErrorChan) : pubErrorChan[n] # pubRet

\* the order of errorChan: what PublishDirectory returns is the error that
\* was first on errorChan
ReturnsHead ==
    [][(pubPc = "waiting" /\ pubPc' = "returned") =>
          IF pubErrorChan = <<>> THEN pubRet' = nilError
          ELSE pubRet' = Head(pubErrorChan)]_vars

\* C14: with no CSV file in the directory PublishDirectory returns an error;
\* no worker is started, the sink is not contacted and no counter of
\* Progress changes.
C14_NoFilesIsAnError ==
    /\ []((files = <<>> /\ pubPc = "returned") => pubRet = <<"no CSV files found">>)
    /\ []((files = <<>>) => (worker = EmptyMap /\ sink = EmptyMap /\ filesCh = <<>>))
    /\ [][(files = <<>>) => UNCHANGED <<progress, worker, sink, pubErrorChan>>]_vars

\* PublishDirectory returned on an empty directory
C14_Witness == files = <<>> /\ pubPc = "returned"

-----------------------------------------------------------------------------
(* Publisher.processFile: dry run *)

\* the dry-run update of worker w counts the file's events as published and
\* the file as processed
DryRunCounted(w) ==
    WorkerAt(w, "wrDry") =>
        /\ progress'.PublishedEvents = progress.PublishedEvents + EventsOf(w)
        /\ progress'.ProcessedFiles = progress.ProcessedFiles + 1
        /\ progress'.FailedEvents = progress.FailedEvents

\* in a dry run processFile returns nil once the file is transformed
DryRunReturnsNil(w) ==
    WorkerAt(w, "wrDry") =>
        /\ fileResult' = Put(fileResult, worker[w].file, "ok")
        /\ pubErrorChan' = pubErrorChan

\* C15: in a dry run the sink is never contacted; for each file
\* PublishedEvents grows by the file's events, ProcessedFiles by one,
\* FailedEvents stays and the file reports no error.
C15_DryRunCounts ==
    /\ [](config.DryRun => sink = EmptyMap)
    /\ [][\A w \in DOMAIN worker :
             (config.DryRun /\ w \in DOMAIN worker' /\ worker'[w] # worker[w]) =>
                 DryRunCounted(w) /\ DryRunReturnsNil(w)]_vars

\* in a dry run the sink is never contacted, no batch is sent and a
\* transformed file reports no error
DryRunSinkUntouched ==
    /\ [](config.DryRun =>
             /\ sink = EmptyMap
             /\ \A w \in DOMAIN worker : worker[w].pc \notin {"send", "rdOK", "wrOK", "rdFail", "wrFail"})
    /\ [][\A w \in DOMAIN worker :
             (config.DryRun /\ w \in DOMAIN worker' /\ worker'[w] # worker[w]) =>
                 DryRunReturnsNil(w)]_vars

\* with one worker the dry-run counts are exact
DryRunCountsOneWorker ==
    [][\A w \in DOMAIN worker :
          (config.DryRun /\ config.Concurrency = 1 /\ w \in DOMAIN worker'
             /\ worker'[w] # worker[w]) => DryRunCounted(w)]_vars

-----------------------------------------------------------------------------
(* Progress.mu *)

\* the places of processFile whose next step is a call of UpdateProgress
WriteStates == {"wrTotal", "wrDry", "wrOK", "wrFail", "wrDone"}

\* whether the access to Progress made from a place of processFile holds
\* Progress.mu: UpdateProgress locks it, the reads of p.progress.X that make
\* the arguments of the call do not
UnderLock(at) == at \in WriteStates

\* worker w is about to read or write the counters of Progress
AccessesProgress(w) == worker[w].pc \in ReadStates \cup WriteStates

\* C16: every read and every write of a field of Progress holds the lock of
\* Progress: no worker reads or writes the counters outside the lock while
\* another worker is writing them.
C16_AccessUnderLock ==
    \A v, w \in DOMAIN worker :
        (v # w /\ AccessesProgress(v) /\ worker[w].pc \in WriteStates)
            => UnderLock(worker[v].pc)

-----------------------------------------------------------------------------
(* sanitizeFilename, applied on its own *)

\* the longest key drawn
MaxKeyLen == 3

\* the characters of the keys drawn: a plain one, the three that are trimmed
\* and two that are illegal in file names
KeyChars == {"a", "_", ".", " ", "/", "<"}

SanInit ==
    /\ arg \in SeqsUpTo(KeyChars, MaxKeyLen)
    /\ ret = <<>>
    /\ SplitIdle
    /\ PubIdle

\* sanitizeFilename is applied to the key, then to what it returned
Sanitize ==
    /\ Len(ret) < 2
    /\ ret' = Append(ret, sanitizeFilename(IF ret = <<>> THEN arg ELSE ret[Len(ret)]))
    /\ UNCHANGED <<arg, splitVars, pubVars>>

SanNext == Sanitize

SanSpec == SanInit /\ [][SanNext]_vars

\* C17: sanitizeFilename is idempotent: sanitizing a sanitized key returns it
\* unchanged.
C17_Idempotent == Len(ret) = 2 => ret[2] = ret[1]

\* a key that sanitizing changed was sanitized twice
C17_Witness == Len(ret) = 2 /\ ret[1] # arg /\ ret[1] # unknown

-----------------------------------------------------------------------------
(* applyTimeOffsets, and the step of Transformer.TransformCSV that calls it *)

\* the deepest nesting of the field values drawn
MaxDepth == 1

\* A string value. A string without a timestamp is its text. A string that
\* holds a timestamp in the shape of rfc3339RGX is kept as its parts: the
\* text before the timestamp, the time in milliseconds, whether a fraction
\* of a second is written, and the zone as written ("" for none).
Plain(text) ==
    [type |-> "string", text |-> text, hasTime |-> FALSE, before |-> "", ms |-> 0,
     fraction |-> FALSE, zone |-> ""]
PlainString == Plain("x")
TimeString(before, ms, zone) ==
    [type |-> "string", text |-> "", hasTime |-> TRUE, before |-> before, ms |-> ms,
     fraction |-> (ms % 1000 # 0), zone |-> zone]

Zones == {"", "Z", "+01:00"}
TimeStrings == {TimeString(b, ms, z) : b \in {"", "at "}, ms \in {2000, 2500}, z \in Zones}
Strings == {PlainString} \cup TimeStrings

MapValue(v) == [type |-> "map", fields |-> [k \in {"k"} |-> v]]
SliceValue(v) == [type |-> "slice", items |-> <<v>>]

\* the values of a field: strings, maps and slices, nested up to depth d
RECURSIVE ValuesUpTo(_)
ValuesUpTo(d) ==
    IF d = 0 THEN Strings
    ELSE LET inner == ValuesUpTo(d - 1)
         IN  Strings \cup {MapValue(v) : v \in inner} \cup {SliceValue(v) : v \in inner}

\* hec.Event: Time is a pointer, <<>> when nil
Events ==
    [Time : {<<>>, <<5>>}, Host : {""}, Source : {""}, SourceType : {""}, Index : {""},
     Event : [{"k"} -> ValuesUpTo(MaxDepth)]]

\* time.Duration values, in milliseconds
Offsets == {0, 1000, 500, 0 - 1500}

\* int64(offset.Seconds()): the whole seconds, rounded toward zero
OffsetSeconds(offset) ==
    IF offset >= 0 THEN offset \div 1000 ELSE 0 - ((0 - offset) \div 1000)

\* rfc3339FullRGX.MatchString: the string is a timestamp and nothing else
FullMatch(v) == v.hasTime /\ v.before = ""

\* dateparse.ParseAny succeeds on a string that is a timestamp and fails on
\* one with text before the timestamp
ParseAnyOK(v) == v.hasTime /\ v.before = ""

\* timestamp.Add(offset).Format(time.RFC3339): whole seconds, no fraction,
\* and Z for a time without a zone
FormatRFC3339(v, offset) ==
    [v EXCEPT !.ms = ((v.ms + offset) \div 1000) * 1000,
              !.fraction = FALSE,
              !.zone = IF v.zone = "" THEN "Z" ELSE v.zone]

\* the string case of applyTimeOffsets: in both arms the whole string v is
\* parsed, and it is rewritten only when that succeeds
ShiftString(v, offset) ==
    IF FullMatch(v)
    THEN IF ParseAnyOK(v) THEN FormatRFC3339(v, offset) ELSE v
    ELSE IF v.hasTime
         THEN IF ParseAnyOK(v) THEN FormatRFC3339(v, offset) ELSE v
         ELSE v

\* the loop of applyTimeOffsets over event.Event: a map is recursed into, the
\* maps among the items of a slice are recursed into, a string is shifted
RECURSIVE ShiftFields(_, _)
ShiftFields(fields, offset) ==
    [k \in DOMAIN fields |->
        LET v == fields[k]
        IN  CASE v.type = "map" -> [v EXCEPT !.fields = ShiftFields(v.fields, offset)]
              [] v.type = "slice" ->
                    [v EXCEPT !.items =
                        [i \in 1..Len(v.items) |->
                            IF v.items[i].type = "map"
                            THEN [v.items[i] EXCEPT !.fields = ShiftFields(@, offset)]
                            ELSE v.items[i]]]
              [] v.type = "string" -> ShiftString(v, offset)
              [] OTHER -> v]

applyTimeOffsets(event, offset) ==
    [event EXCEPT
        !.Time = IF event.Time # <<>> THEN <<event.Time[1] + OffsetSeconds(offset)>>
                 ELSE event.Time,
        !.Event = ShiftFields(event.Event, offset)]

\* a TransformCSV that applies the offset whatever its value
OffsetAppliedAlways(event, offset) == applyTimeOffsets(event, offset)

\* TransformCSV: the offset is applied only when it is not zero
OffsetApplied(event, offset) ==
    IF offset # 0 THEN applyTimeOffsets(event, offset) ELSE event

OffsetInit ==
    /\ arg \in [event : Events, offset : Offsets]
    /\ ret = <<>>
    /\ SplitIdle
    /\ PubIdle

\* TransformCSV has transformed the record and applies the time offset
ApplyOffset ==
    /\ ret = <<>>
    /\ ret' = <<OffsetApplied(arg.event, arg.offset)>>
    /\ UNCHANGED <<arg, splitVars, pubVars>>

OffsetNext == ApplyOffset

OffsetSpec == OffsetInit /\ [][OffsetNext]_vars

\* C18: with a zero time offset the event is unchanged: its Time and every
\* value of its fields, timestamp strings at any depth included.
C18_ZeroOffsetUnchanged ==
    (ret # <<>> /\ arg.offset = 0) => ret[1] = arg.event

\* a timestamp string with a fraction of a second, inside a nested map, went
\* through TransformCSV with a zero offset
C18_Witness ==
    /\ ret # <<>> /\ arg.offset = 0
    /\ arg.event.Time # <<>>
    /\ arg.event.Event["k"].type = "map"
    /\ arg.event.Event["k"].fields["k"].type = "string"
    /\ FullMatch(arg.event.Event["k"].fields["k"])
    /\ arg.event.Event["k"].fields["k"].fraction

-----------------------------------------------------------------------------
(* Transformer.TransformCSV and transformRecord, on a file of one record *)

\* the most columns of the files drawn
MaxCols == 2

timeCell == "2024-01-01T00:00:02Z"
objectCell == "{\"k\":1}"
nullCell == "null"

ColumnNames == {"_time", "_raw", "a"}
CellTexts == {"", "v", timeCell, objectCell, nullCell}

\* the header and the record of a file: csv.Reader gives every record the
\* header's number of fields
FilesOf(n) == {<<h, r>> : h \in [1..n -> ColumnNames], r \in [1..n -> CellTexts]}
CSVFiles == UNION {FilesOf(n) : n \in 1..MaxCols}

\* TransformerConfig; DefaultTimestamp is a pointer, <<>> when nil, and holds
\* the value of Unix()
TransformerConfigs ==
    [SourceType : {""}, Host : {""}, Source : {""}, Index : {""},
     TimeField : {"", "_time"},
     ExcludeFields : {{}},
     FieldMappings : {EmptyMap, [c \in {"a"} |-> "z"]},
     ConstantFields : {EmptyMap, [c \in {"k", "c"} |-> "x"]},
     StrictMapping : BOOLEAN,
     PreserveNulls : BOOLEAN,
     DiscardInvalid : BOOLEAN,
     DefaultTimestamp : {<<>>, <<9>>},
     TimeOffset : {0, 1000}]

\* time.Parse(time.RFC3339, timeStr) and tm.Unix(): <<seconds>>, <<>> on error
parseTimestamp(timeStr) == IF timeStr = timeCell THEN <<2>> ELSE <<>>

Number(n) == [type |-> "number", n |-> n]

\* json.Unmarshal([]byte(rawValue), &rawJSON) with rawJSON a map[string]any:
\* an object gives its map, null gives a nil map and no error, anything else
\* is an error
Unmarshal(rawValue) ==
    IF rawValue = objectCell
    THEN [ok |-> TRUE, isNil |-> FALSE, object |-> [k \in {"k"} |-> Number(1)]]
    ELSE IF rawValue = nullCell
         THEN [ok |-> TRUE, isNil |-> TRUE, object |-> EmptyMap]
         ELSE [ok |-> FALSE, isNil |-> FALSE, object |-> EmptyMap]

\* a cell of the record as a value of the event's fields
StringValue(text) ==
    IF text = timeCell THEN TimeString("", 2000, "Z") ELSE Plain(text)

\* headerIndices of TransformCSV, indices from 0: the last column of a name
HeaderIndices(hdr) ==
    [h \in {hdr[i] : i \in 1..Len(hdr)} |->
        CHOOSE i \in 0..(Len(hdr) - 1) :
            /\ hdr[i + 1] = h
            /\ \A j \in 0..(Len(hdr) - 1) : hdr[j + 1] = h => j <= i]

\* timeIndex of TransformCSV: -1 without a time field; the index expression
\* of a map gives 0 for a name that is not in the header
TimeIndex(hdr, cfg) ==
    IF cfg.TimeField # ""
    THEN Get(HeaderIndices(hdr), cfg.TimeField, 0)
    ELSE 0 - 1

\* a TransformCSV that fails when either setting is missing
TimeFieldNotFoundEither(hdr, cfg) ==
    /\ cfg.TimeField # ""
    /\ cfg.TimeField \notin DOMAIN HeaderIndices(hdr)
    /\ (~cfg.DiscardInvalid \/ cfg.DefaultTimestamp = <<>>)

\* TransformCSV returns "time field not found in CSV header"
TimeFieldNotFound(hdr, cfg) ==
    /\ cfg.TimeField # ""
    /\ cfg.TimeField \notin DOMAIN HeaderIndices(hdr)
    /\ ~cfg.DiscardInvalid
    /\ cfg.DefaultTimestamp = <<>>

\* an AddField that merges the columns into a JSON _raw as well
AddFieldAlways(e, in, i) ==
    LET cfg == in.config
        value == in.record[i + 1]
        fieldName == in.header[i + 1]
    IN  IF fieldName \in in.excludeFields THEN e
        ELSE IF i = in.timeIndex THEN e
        ELSE IF fieldName \notin DOMAIN cfg.FieldMappings /\ cfg.StrictMapping THEN e
        ELSE IF value = "" /\ ~cfg.PreserveNulls THEN e
        ELSE [e EXCEPT !.Event =
                Put(@, Get(cfg.FieldMappings, fieldName, fieldName), StringValue(value))]

\* the loop of transformRecord over the record, after the switch: column i
\* (from 0) is added to the event unless something skips it
AddField(e, in, i) ==
    LET cfg == in.config
        value == in.record[i + 1]
        fieldName == in.header[i + 1]
    IN  IF in.rawIsJSON THEN e
        ELSE IF fieldName \in in.excludeFields THEN e
        ELSE IF i = in.timeIndex THEN e
        ELSE IF fieldName \notin DOMAIN cfg.FieldMappings /\ cfg.StrictMapping THEN e
        ELSE IF value = "" /\ ~cfg.PreserveNulls THEN e
        ELSE [e EXCEPT !.Event =
                Put(@, Get(cfg.FieldMappings, fieldName, fieldName), StringValue(value))]

\* one iteration of the loop of transformRecord over the record: the switch
\* on the name of column i, then AddField for a column it did not skip
ProcessField(event, in, i) ==
    LET cfg == in.config
        value == in.record[i + 1]
        fieldName == in.header[i + 1]
    IN  IF i >= Len(in.header) THEN event
        ELSE IF fieldName = cfg.TimeField THEN event
        ELSE IF fieldName = "_raw"
             THEN IF in.rawIsJSON THEN event
                  ELSE AddField(IF value # ""
                                THEN [event EXCEPT !.Event = Put(@, "_raw", StringValue(value))]
                                ELSE event, in, i)
        ELSE IF fieldName = "host"
             THEN IF cfg.Host # "" THEN [event EXCEPT !.Host = cfg.Host]
                  ELSE AddField(event, in, i)
        ELSE IF fieldName = "source"
             THEN IF cfg.Source # "" THEN [event EXCEPT !.Source = cfg.Source]
                  ELSE AddField(event, in, i)
        ELSE IF fieldName = "sourcetype"
             THEN IF cfg.SourceType # "" THEN [event EXCEPT !.SourceType = cfg.SourceType]
                  ELSE AddField(event, in, i)
        ELSE IF fieldName = "index"
             THEN IF cfg.Index # "" THEN [event EXCEPT !.Index = cfg.Index]
                  ELSE AddField(event, in, i)
        ELSE IF fieldName = "punct" THEN event
        ELSE AddField(event, in, i)

RECURSIVE ProcessFields(_, _, _)
ProcessFields(event, in, i) ==
    IF i >= Len(in.record) THEN event
    ELSE ProcessFields(ProcessField(event, in, i), in, i + 1)

\* the loop of transformRecord over the constant fields
RECURSIVE AddConstantFields(_, _)
AddConstantFields(fields, constants) ==
    IF DOMAIN constants = {} THEN fields
    ELSE LET key == CHOOSE k \in DOMAIN constants : TRUE
         IN  AddConstantFields(Put(fields, key, Plain(constants[key])),
                               [k \in DOMAIN constants \ {key} |-> constants[k]])

InvalidTimestamp == "invalid timestamp"

\* transformRecord: the event, the error, and whether it panicked on writing
\* a constant field into a nil map
transformRecord(record, hdr, headerIndices, timeIndex, excludeFields, cfg) ==
    LET start == [Time |-> <<>>, Host |-> cfg.Host, Source |-> cfg.Source,
                  SourceType |-> cfg.SourceType, Index |-> cfg.Index, Event |-> EmptyMap]
        hasTime == timeIndex >= 0 /\ timeIndex < Len(record)
        timestamp == IF hasTime THEN parseTimestamp(record[timeIndex + 1]) ELSE <<>>
        timed == [start EXCEPT !.Time = IF timestamp # <<>> THEN timestamp
                                        ELSE cfg.DefaultTimestamp]
        raw == IF "_raw" \in DOMAIN headerIndices /\ headerIndices["_raw"] < Len(record)
                  /\ record[headerIndices["_raw"] + 1] # ""
               THEN Unmarshal(record[headerIndices["_raw"] + 1])
               ELSE [ok |-> FALSE, isNil |-> FALSE, object |-> EmptyMap]
        withRaw == IF raw.ok THEN [timed EXCEPT !.Event = raw.object] ELSE timed
        in == [record |-> record, header |-> hdr, config |-> cfg, timeIndex |-> timeIndex,
               excludeFields |-> excludeFields, rawIsJSON |-> raw.ok]
        looped == ProcessFields(withRaw, in, 0)
    IN  IF hasTime /\ timestamp = <<>> /\ cfg.DiscardInvalid
        THEN [event |-> start, err |-> InvalidTimestamp, panicked |-> FALSE]
        ELSE IF raw.ok /\ raw.isNil /\ DOMAIN cfg.ConstantFields # {}
             THEN [event |-> looped, err |-> NoErr, panicked |-> TRUE]
             ELSE [event |-> [looped EXCEPT !.Event = AddConstantFields(@, cfg.ConstantFields)],
                   err |-> NoErr, panicked |-> FALSE]

\* transformRecord as TransformCSV calls it
TransformedRecord(hdr, record, cfg) ==
    transformRecord(record, hdr, HeaderIndices(hdr), TimeIndex(hdr, cfg),
                    cfg.ExcludeFields, cfg)

\* files of the metadata columns, under configurations with and without a
\* default for each
MetaNames == {"host", "source", "sourcetype", "index"}
MetaFilesOf(n) == {<<h, r>> : h \in [1..n -> MetaNames], r \in [1..n -> {"", "v"}]}
MetaFiles == UNION {MetaFilesOf(n) : n \in 1..MaxCols}
MetaConfigs ==
    [SourceType : {"", "t"}, Host : {"", "h"}, Source : {"", "s"}, Index : {"", "i"},
     TimeField : {""},
     ExcludeFields : {{}},
     FieldMappings : {EmptyMap},
     ConstantFields : {EmptyMap},
     StrictMapping : {FALSE},
     PreserveNulls : {FALSE},
     DiscardInvalid : {FALSE},
     DefaultTimestamp : {<<>>},
     TimeOffset : {0}]

\* files of _raw and two plain columns, under configurations that exclude,
\* rename and add fields
FieldNames == {"_raw", "a", "b"}
FieldFilesOf(n) == {<<h, r>> : h \in [1..n -> FieldNames], r \in [1..n -> CellTexts \ {timeCell}]}
FieldFiles == UNION {FieldFilesOf(n) : n \in 1..MaxCols}
FieldConfigs ==
    [SourceType : {""}, Host : {""}, Source : {""}, Index : {""},
     TimeField : {""},
     ExcludeFields : {{}, {"_raw"}, {"a"}},
     FieldMappings : {EmptyMap, [c \in {"b"} |-> "a"]},
     ConstantFields : {EmptyMap, [c \in {"a", "c"} |-> "x"]},
     StrictMapping : BOOLEAN,
     PreserveNulls : BOOLEAN,
     DiscardInvalid : {FALSE},
     DefaultTimestamp : {<<>>},
     TimeOffset : {0}]

TransformInputs ==
    [file : CSVFiles, config : TransformerConfigs]
        \cup [file : MetaFiles, config : MetaConfigs]
        \cup [file : FieldFiles, config : FieldConfigs]

TransformInit ==
    /\ arg \in TransformInputs
    /\ ret = <<>>
    /\ SplitIdle
    /\ PubIdle

\* TransformCSV returns an error for the header
TransformHeaderError ==
    /\ ret = <<>>
    /\ TimeFieldNotFound(arg.file[1], arg.config)
    /\ ret' = <<[record |-> <<>>, events |-> <<>>, err |-> "time field not found",
                 panicked |-> FALSE]>>
    /\ UNCHANGED <<arg, splitVars, pubVars>>

\* TransformCSV reads the record, transforms it, applies the time offset and
\* returns the events
TransformCSV ==
    /\ ret = <<>>
    /\ ~TimeFieldNotFound(arg.file[1], arg.config)
    /\ \E r \in {TransformedRecord(arg.file[1], arg.file[2], arg.config)} :
          ret' = <<[record |-> <<r>>,
                    events |-> IF r.err # NoErr \/ r.panicked THEN <<>>
                               ELSE <<OffsetApplied(r.event, arg.config.TimeOffset)>>,
                    err |-> IF r.err # NoErr /\ ~arg.config.DiscardInvalid
                            THEN "error transforming record" ELSE NoErr,
                    panicked |-> r.panicked]>>
    /\ UNCHANGED <<arg, splitVars, pubVars>>

TransformNext == TransformHeaderError \/ TransformCSV

TransformSpec == TransformInit /\ [][TransformNext]_vars

\* the _raw column of the file's record parses as a JSON object
RawOf(file) ==
    LET idx == HeaderIndices(file[1])
    IN  IF "_raw" \in DOMAIN idx /\ file[2][idx["_raw"] + 1] # ""
        THEN Unmarshal(file[2][idx["_raw"] + 1])
        ELSE [ok |-> FALSE, isNil |-> FALSE, object |-> EmptyMap]
RawIsObject == RawOf(arg.file).ok /\ ~RawOf(arg.file).isNil

\* transformRecord has produced an event for the record
Produced ==
    /\ ret # <<>> /\ ret[1].record # <<>>
    /\ ret[1].record[1].err = NoErr /\ ~ret[1].record[1].panicked
ProducedFields == ret[1].record[1].event.Event

\* C19: when the _raw column parses as a JSON object, the field mapping of
\* the event is that object and nothing else.
C19_RawObjectIsTheEvent ==
    (Produced /\ RawIsObject) => ProducedFields = RawOf(arg.file).object

\* C19 as amended: the field mapping is the parsed object with the constant
\* fields of the configuration written over it; no column of the row is in it.
C19_RawObjectAndConstants ==
    (Produced /\ RawIsObject) =>
        LET object == RawOf(arg.file).object
            constants == arg.config.ConstantFields
        IN  /\ DOMAIN ProducedFields = DOMAIN object \cup DOMAIN constants
            /\ \A k \in DOMAIN constants : ProducedFields[k] = Plain(constants[k])
            /\ \A k \in DOMAIN object \ DOMAIN constants : ProducedFields[k] = object[k]

\* a row with a JSON object in _raw and a non-empty sibling column, under a
\* configuration with constant fields, has been transformed
C19_Witness ==
    /\ Produced /\ RawIsObject
    /\ arg.file[1] = <<"a", "_raw">> /\ arg.file[2][1] = "v"
    /\ DOMAIN arg.config.ConstantFields # {}
    /\ ~arg.config.StrictMapping

-----------------------------------------------------------------------------
(* Rows with an empty sourcetype *)

\* the lines of the input that the passes do not skip and whose sourcetype
\* field is empty
EmptyKeyRows ==
    {n \in 1..Len(input) : ~Skipped(input[n]) /\ input[n][sourcetypeIdx] = Empty}

Pass1Done == sourcetypeIdx # 0 /\ pc \in {"pass2", "blocked", "closing", "waitErr", "returned"}

\* pass 1 has counted the non-empty columns of the rows for "unknown"
CountedForUnknown ==
    \A n \in EmptyKeyRows :
        \A i \in 1..Len(input[n]) :
            input[n][i] # Empty => i \in Get(columnUsage, unknown, {})

\* the data rows of the output file unknown.csv
UnknownTable ==
    LET f == unknown \o <<".csv">>
    IN  IF f \in DOMAIN fs /\ fs[f] # <<>> THEN Tail(fs[f]) ELSE <<>>

\* the rows, each with the columns of the schema of "unknown", are in order
\* the data rows of unknown.csv
WrittenToUnknown ==
    LET colIndices == IdxList(Get(columnUsage, unknown, {}))
        RECURSIVE expected(_)
        expected(n) ==
            IF n = 0 THEN <<>>
            ELSE IF n \in EmptyKeyRows
                 THEN Append(expected(n - 1), FilterRecord(input[n], colIndices))
                 ELSE expected(n - 1)
    IN  EmptyKeyRows # {} => UnknownTable = expected(Len(input))

\* C20: every row with an empty sourcetype has the key "unknown" in both
\* passes: pass 1 counts its non-empty columns for the schema of "unknown",
\* and once the writers have finished without a failure the row is in
\* unknown.csv.
C20_EmptyKeyIsUnknown ==
    /\ Pass1Done => CountedForUnknown
    /\ (SplitFinished /\ NoWriterFailed) => WrittenToUnknown

\* the same for inputs in which no two sourcetypes share an output file
EmptyKeyIsUnknownNoCollision ==
    /\ Pass1Done => CountedForUnknown
    /\ (SplitFinished /\ NoWriterFailed /\ ~Collision) => WrittenToUnknown

-----------------------------------------------------------------------------
(* The header check of TransformCSV *)

\* the configured time field is not a column of the header of the file
TimeColumnAbsent ==
    /\ arg.config.TimeField # ""
    /\ \A i \in 1..Len(arg.file[1]) : arg.file[1][i] # arg.config.TimeField

\* TransformCSV has returned the error for the header, with no row transformed
FailedForHeader ==
    /\ ret # <<>>
    /\ ret[1].err = "time field not found"
    /\ ret[1].record = <<>> /\ ret[1].events = <<>>

-----------------------------------------------------------------------------
(* runSplit and runPublish, from the return of ProcessCSV or PublishDirectory
   to the end of the process *)

\* what the call returned and left behind: its error, whether a goroutine
\* registered on the caller's wait group never finishes, and the counts
CommandRuns ==
    [command : {"split", "publish"},
     err : {NoErr, "error"},
     leaked : BOOLEAN,
     processed : 0..MaxFiles,
     total : 0..MaxFiles]

\* the command, while it runs: where it is, what it has printed, and the
\* exit status of the process, <<>> while it runs
CommandAt(at, out, exit) == [pc |-> at, out |-> out, exit |-> exit]

Summary(run) == <<"Summary", run.processed, run.total>>
ErrorLine(run) == <<"Error", run.err, 0>>

CommandInit ==
    /\ arg \in {run \in CommandRuns :
                    /\ run.processed <= run.total
                    /\ run.leaked => run.command = "split"}
    /\ ret = CommandAt("returned", <<>>, <<>>)
    /\ SplitIdle
    /\ PubIdle

\* close(displayDone)
StopDisplay ==
    /\ ret.pc = "returned"
    /\ ret' = [ret EXCEPT !.pc = "wait"]
    /\ UNCHANGED <<arg, splitVars, pubVars>>

\* wg.Wait() returns once every goroutine registered on wg has finished
WaitGroup ==
    /\ ret.pc = "wait"
    /\ ~arg.leaked
    /\ ret' = [ret EXCEPT !.pc = IF arg.command = "split" THEN "summary" ELSE "check"]
    /\ UNCHANGED <<arg, splitVars, pubVars>>

\* the summary is printed: by runSplit before the check of err, by runPublish
\* after it
PrintSummary ==
    /\ ret.pc = "summary"
    /\ ret' = [ret EXCEPT !.out = Append(@, Summary(arg)),
                          !.pc = IF arg.command = "split" THEN "check" ELSE "end"]
    /\ UNCHANGED <<arg, splitVars, pubVars>>

\* if err != nil: the error is printed and os.Exit(1) ends the process
ExitOnError ==
    /\ ret.pc = "check"
    /\ arg.err # NoErr
    /\ ret' = [ret EXCEPT !.out = Append(@, ErrorLine(arg)), !.exit = <<1>>, !.pc = "exited"]
    /\ UNCHANGED <<arg, splitVars, pubVars>>

\* err is nil: runSplit is at its end, runPublish goes on to the summary
NoError ==
    /\ ret.pc = "check"
    /\ arg.err = NoErr
    /\ ret' = [ret EXCEPT !.pc = IF arg.command = "split" THEN "end" ELSE "summary"]
    /\ UNCHANGED <<arg, splitVars, pubVars>>

\* the command returns and the process ends with status 0
CommandReturn ==
    /\ ret.pc = "end"
    /\ ret' = [ret EXCEPT !.exit = <<0>>, !.pc = "exited"]
    /\ UNCHANGED <<arg, splitVars, pubVars>>

CommandNext ==
    \/ StopDisplay \/ WaitGroup \/ PrintSummary \/ ExitOnError \/ NoError \/ CommandReturn

CommandSpec == CommandInit /\ [][CommandNext]_vars

SummaryPrinted == \E i \in 1..Len(ret.out) : ret.out[i] = Summary(arg)

\* C24: in both commands, when the run ended with an error the process exits
\* with a non-zero status only after the summary has been printed.
C24_SummaryBeforeExit ==
    (arg.err # NoErr /\ ret.exit # <<>>) => (ret.exit # <<0>> /\ SummaryPrinted)

\* the same for the split command alone
SplitSummaryBeforeExit ==
    (arg.command = "split" /\ arg.err # NoErr /\ ret.exit # <<>>)
        => (ret.exit # <<0>> /\ SummaryPrinted)

-----------------------------------------------------------------------------
(* Transformer.TransformCSV on a file of several records *)

\* the most records of the files drawn
MaxRecords == 2

RowHeaders == {<<"_time", "a">>, <<"a">>}
RowCells == {"", "v", timeCell}

\* the records of a file: as many fields as the header, or one field fewer,
\* which csv.Reader returns as an error
RecordsOf(hdr) ==
    [1..Len(hdr) -> RowCells] \cup {r \in {<<"v">>} : Len(hdr) > 1}

RowFiles == UNION {{<<hdr, rows>> : rows \in SeqsUpTo(RecordsOf(hdr), MaxRecords)} : hdr \in RowHeaders}

RowConfigs ==
    [SourceType : {""}, Host : {""}, Source : {""}, Index : {""},
     TimeField : {"", "_time"},
     ExcludeFields : {{}},
     FieldMappings : {EmptyMap},
     ConstantFields : {EmptyMap},
     StrictMapping : {FALSE},
     PreserveNulls : {FALSE},
     DiscardInvalid : BOOLEAN,
     DefaultTimestamp : {<<>>, <<9>>},
     TimeOffset : {0, 1000}]

\* TransformCSV while it runs: where it is, the records read and what each
\* gave, the events so far, and the error it returns
RowsInit ==
    /\ arg \in [file : RowFiles, config : RowConfigs]
    /\ ret = [pc |-> "header", done |-> <<>>, events |-> <<>>, err |-> NoErr]
    /\ SplitIdle
    /\ PubIdle

\* the header is read and the time field looked up
ReadHeader ==
    /\ ret.pc = "header"
    /\ ret' = IF TimeFieldNotFound(arg.file[1], arg.config)
              THEN [ret EXCEPT !.pc = "returned", !.err = "time field not found"]
              ELSE [ret EXCEPT !.pc = "rows"]
    /\ UNCHANGED <<arg, splitVars, pubVars>>

\* a TransformCSV that returns the error of transformRecord also when it is
\* configured to discard
AfterRecordAbort(state, r, cfg) ==
    LET emitted == IF r.err = NoErr THEN <<OffsetApplied(r.event, cfg.TimeOffset)>> ELSE <<>>
        done == Append(state.done, [record |-> r, events |-> emitted])
    IN  IF r.err # NoErr
        THEN [state EXCEPT !.done = done, !.pc = "returned", !.events = <<>>,
                           !.err = "error transforming record"]
        ELSE [state EXCEPT !.done = done, !.events = @ \o emitted]

\* TransformCSV after transformRecord: an error skips the record when
\* DiscardInvalid is set and is returned otherwise; the event gets the time
\* offset and is appended
AfterRecord(state, r, cfg) ==
    LET emitted == IF r.err = NoErr THEN <<OffsetApplied(r.event, cfg.TimeOffset)>> ELSE <<>>
        done == Append(state.done, [record |-> r, events |-> emitted])
    IN  IF r.err # NoErr
        THEN IF cfg.DiscardInvalid
             THEN [state EXCEPT !.done = done]
             ELSE [state EXCEPT !.done = done, !.pc = "returned", !.events = <<>>,
                                !.err = "error transforming record"]
        ELSE [state EXCEPT !.done = done, !.events = @ \o emitted]

\* the next record is read and transformed
TransformRow ==
    /\ ret.pc = "rows"
    /\ Len(ret.done) < Len(arg.file[2])
    /\ LET record == arg.file[2][Len(ret.done) + 1]
       IN  /\ Len(record) = Len(arg.file[1])
           /\ \E r \in {TransformedRecord(arg.file[1], record, arg.config)} :
                 ret' = AfterRecord(ret, r, arg.config)
    /\ UNCHANGED <<arg, splitVars, pubVars>>

\* csvReader.Read returns an error other than io.EOF: TransformCSV returns it
ReadRowError ==
    /\ ret.pc = "rows"
    /\ Len(ret.done) < Len(arg.file[2])
    /\ Len(arg.file[2][Len(ret.done) + 1]) # Len(arg.file[1])
    /\ ret' = [ret EXCEPT !.pc = "returned", !.events = <<>>, !.err = "error reading CSV"]
    /\ UNCHANGED <<arg, splitVars, pubVars>>

\* io.EOF: the events are returned
EndOfFile ==
    /\ ret.pc = "rows"
    /\ Len(ret.done) = Len(arg.file[2])
    /\ ret' = [ret EXCEPT !.pc = "returned"]
    /\ UNCHANGED <<arg, splitVars, pubVars>>

RowsNext == ReadHeader \/ TransformRow \/ ReadRowError \/ EndOfFile

RowsSpec == RowsInit /\ [][RowsNext]_vars

\* record i of the file has a time field, and it does not parse
TimeFieldInvalid(i) ==
    /\ arg.config.TimeField # ""
    /\ \E j \in 1..Len(arg.file[1]) :
          /\ arg.file[1][j] = arg.config.TimeField
          /\ \A k \in (j + 1)..Len(arg.file[1]) : arg.file[1][k] # arg.config.TimeField
          /\ Len(arg.file[2][i]) = Len(arg.file[1])
          /\ arg.file[2][i][j] # timeCell

\* C22: a row whose timestamp does not parse gives no event when
\* DiscardInvalid is set, and the rows after it are still transformed;
\* otherwise its event is emitted, with the default timestamp when one is
\* configured and with no timestamp when none is. In neither case does the
\* row make TransformCSV return an error.
C22_InvalidTimestamp ==
    \A i \in 1..Len(ret.done) :
        TimeFieldInvalid(i) =>
            IF arg.config.DiscardInvalid
            THEN /\ ret.done[i].events = <<>>
                 /\ ret.err # "error transforming record"
                 /\ (ret.pc = "returned" /\ ret.err = NoErr) => Len(ret.done) = Len(arg.file[2])
            ELSE /\ ret.err # "error transforming record"
                 /\ Len(ret.done[i].events) = 1
                 /\ ret.done[i].record.event.Time = arg.config.DefaultTimestamp

\* the event of such a row, as emitted: its timestamp is the default shifted
\* by the time offset
InvalidTimestampEmitted ==
    \A i \in 1..Len(ret.done) :
        (TimeFieldInvalid(i) /\ ~arg.config.DiscardInvalid) =>
            ret.done[i].events[1].Time =
                IF arg.config.DefaultTimestamp = <<>> THEN <<>>
                ELSE <<arg.config.DefaultTimestamp[1] + arg.config.TimeOffset \div 1000>>

\* with DiscardInvalid a first row with a bad timestamp was skipped and the
\* second row gave the only event
C22_Witness ==
    /\ ret.pc = "returned" /\ Len(ret.done) = 2
    /\ arg.config.DiscardInvalid
    /\ TimeFieldInvalid(1) /\ ~TimeFieldInvalid(2)
    /\ Len(ret.events) = 1

-----------------------------------------------------------------------------
(* The metadata columns *)

\* the event transformRecord produced for the record of the file
ProducedEvent == ret[1].record[1].event

\* the non-empty values the row holds in the columns of a name
RowValues(name) ==
    {arg.file[2][j] : j \in {i \in 1..Len(arg.file[1]) :
                                arg.file[1][i] = name /\ arg.file[2][i] # ""}}

\* the attribute of the event is the configured value when one is
\* configured, and else a value of the row, when the row has one
AttributeFrom(attribute, configured, name) ==
    IF configured # "" THEN attribute = configured
    ELSE RowValues(name) # {} => attribute \in RowValues(name)

\* C23: for host, source, sourcetype and index, the attribute of the event is
\* the configured default when one is set, and the non-empty value of the
\* row's column when none is.
C23_MetadataFromRow ==
    Produced =>
        /\ AttributeFrom(ProducedEvent.Host, arg.config.Host, "host")
        /\ AttributeFrom(ProducedEvent.Source, arg.config.Source, "source")
        /\ AttributeFrom(ProducedEvent.SourceType, arg.config.SourceType, "sourcetype")
        /\ AttributeFrom(ProducedEvent.Index, arg.config.Index, "index")

\* what the code does: the attribute is always the configured value, and
\* without one the row's value is a field of the event
MetadataFromConfig ==
    Produced =>
        /\ ProducedEvent.Host = arg.config.Host
        /\ ProducedEvent.Source = arg.config.Source
        /\ ProducedEvent.SourceType = arg.config.SourceType
        /\ ProducedEvent.Index = arg.config.Index
        /\ (arg.config.Host = "" /\ RowValues("host") # {} /\ ~RawIsObject
              /\ arg.file \in MetaFiles)
              => "host" \in DOMAIN ProducedFields

-----------------------------------------------------------------------------
(* The constant fields and the excluded fields *)

\* transformRecord was called for the record of the file and gave no error
Transformed == ret # <<>> /\ ret[1].record # <<>> /\ ret[1].record[1].err = NoErr

ConstantsPresent ==
    \A k \in DOMAIN arg.config.ConstantFields :
        /\ k \in DOMAIN ProducedFields
        /\ ProducedFields[k] = Plain(arg.config.ConstantFields[k])

\* C29: for every row, after transformRecord every configured constant field
\* is in the field mapping of the event with its configured value, whatever
\* the row gave for that name.
C29_ConstantsPresent ==
    Transformed => (~ret[1].record[1].panicked /\ ConstantsPresent)

\* the same for the rows whose _raw is not the JSON null
ConstantsPresentUnlessNull ==
    (Transformed /\ ~(RawOf(arg.file).ok /\ RawOf(arg.file).isNil))
        => (~ret[1].record[1].panicked /\ ConstantsPresent)

\* no other column and no constant field gives the event the key of column c
OnlyFrom(c) ==
    /\ c \notin DOMAIN arg.config.ConstantFields
    /\ \A i \in 1..Len(arg.file[1]) :
          arg.file[1][i] # c =>
              Get(arg.config.FieldMappings, arg.file[1][i], arg.file[1][i]) # c

NotInEvent(c) ==
    OnlyFrom(Get(arg.config.FieldMappings, c, c))
        => Get(arg.config.FieldMappings, c, c) \notin DOMAIN ProducedFields

\* C30: when _raw is not a JSON object, the field mapping of the event has no
\* key from an excluded column, _raw with a non-JSON string included.
C30_ExcludedNotInEvent ==
    (Produced /\ ~RawOf(arg.file).ok) =>
        \A c \in arg.config.ExcludeFields : NotInEvent(c)

\* the same for the excluded columns other than _raw
ExcludedNotInEventButRaw ==
    (Produced /\ ~RawOf(arg.file).ok) =>
        \A c \in arg.config.ExcludeFields \ {"_raw"} : NotInEvent(c)

-----------------------------------------------------------------------------
(* The schema of a sourcetype *)

\* idxList holds exactly the columns of usedColumns, in ascending order
SchemaOf(idxList, usedColumns) ==
    /\ {idxList[j] : j \in 1..Len(idxList)} = usedColumns
    /\ \A j \in 1..(Len(idxList) - 1) : idxList[j] < idxList[j + 1]

\* line is the header line of the columns of idxList
HeaderLineOf(line, idxList) ==
    /\ Len(line) = Len(idxList)
    /\ \A j \in 1..Len(idxList) : line[j] = header[idxList[j]]

\* C26: for every sourcetype the schema is exactly the header columns of its
\* columnUsage, in ascending header order, in the header line the writer
\* writes and in the columns it projects the rows on.
C26_SchemaIsUsedColumns ==
    /\ \A st \in DOMAIN sourcetypeHeaderIdx :
          SchemaOf(sourcetypeHeaderIdx[st], columnUsage[st])
    /\ \A st \in DOMAIN writer :
          /\ SchemaOf(writer[st].colIndices, columnUsage[st])
          /\ (writer[st].off = 0 /\ writer[st].buf # <<>>)
                => HeaderLineOf(writer[st].buf[1], writer[st].colIndices)
          /\ (OwnsFile(st) /\ OutputFile(st) \in DOMAIN fs /\ fs[OutputFile(st)] # <<>>)
                => HeaderLineOf(fs[OutputFile(st)][1], writer[st].colIndices)

\* a table with both columns of the header has its header line in the file
C26_Witness ==
    \E st \in DOMAIN writer :
        /\ writer[st].colIndices = <<1, 2>>
        /\ OutputFile(st) \in DOMAIN fs
        /\ Len(fs[OutputFile(st)]) >= 2
        /\ fs[OutputFile(st)][1] = <<ColA, sourcetypeCol>>

-----------------------------------------------------------------------------
(* Closing the record channels *)

\* the goroutines of ProcessCSV are scheduled as long as one of them can run
FairSpec == Spec /\ WF_vars(Next)

RouterAtEnd == pc \in {"closing", "waitErr", "returned"}

\* the channels are closed only after the whole input is routed, and all of
\* them before the router goes on
ClosedAtEnd ==
    /\ chClosed # {} => (RouterAtEnd /\ sourcetypeIdx # 0)
    /\ chClosed \subseteq DOMAIN recordChannels
    /\ (pc \in {"waitErr", "returned"} /\ sourcetypeIdx # 0) => chClosed = DOMAIN recordChannels

\* a writer that is done without a failure has written every row of its key
WroteAll(st) ==
    /\ st \in chClosed
    /\ recordChannels[st] = <<>>
    /\ Get(records, st, 0) = Len(RowsFor(st, Len(input)))

DoneWroteAll ==
    \A st \in DOMAIN writer :
        (writer[st].pc = "done" /\ ~WriterFailed(st)) => WroteAll(st)

\* a closed channel stays closed and gets no further row
NoSendOnClosed ==
    \A st \in chClosed :
        /\ st \in chClosed'
        /\ Len(recordChannels'[st]) <= Len(recordChannels[st])

\* the names a writer can have
WriterKeys == Keys \cup Values \cup {unknown}

\* the writer of st has ended with every row of its key written, or has met
\* an error on its file
Drained(st) ==
    /\ st \in DOMAIN writer
    /\ WriterFailed(st) \/ (writer[st].pc = "done" /\ WroteAll(st))

\* C25: after the router has read the whole input it closes every record
\* channel once and sends on none of them afterwards; every writer then
\* eventually writes every row that was sent to it and ends (a writer whose
\* file operations fail excepted).
C25_ClosedAndDrained ==
    /\ [](ClosedAtEnd /\ DoneWroteAll)
    /\ [][NoSendOnClosed]_vars
    /\ \A st \in WriterKeys : (pc = "closing" /\ st \in DOMAIN writer) ~> Drained(st)

\* what holds of the code: when no writer meets an error on its file, all
\* channels are closed and every writer ends with all its rows written
ClosedAndDrainedWithoutFailure ==
    /\ [](ClosedAtEnd /\ DoneWroteAll)
    /\ [][NoSendOnClosed]_vars
    /\ (pc = "closing") ~> (~NoWriterFailed \/ (WritersDone /\ chClosed = DOMAIN recordChannels))

-----------------------------------------------------------------------------
(* processFile on one file, with the progress channel *)

\* the most events of the file
MaxEvents == 3
\* the capacity of the progress channel: 10 in runPublish, scaled
progressChCap == 1

\* processFile after TransformCSV: the events of the file, the settings of
\* the Publisher, and whether Config.ProgressCh is set
FileRuns == [events : 0..MaxEvents, BatchSize : {1, 2}, RetryCount : {1, 2},
             ProgressCh : BOOLEAN]

\* the for statement of the batch loop, from index i
LoopAt(run, i) ==
    IF i < run.events
    THEN [pc |-> "send", i |-> i,
          end |-> IF i + run.BatchSize > run.events THEN run.events ELSE i + run.BatchSize]
    ELSE [pc |-> "processed", i |-> i, end |-> i]

FileInit ==
    /\ arg \in FileRuns
    /\ ret = [pc |-> LoopAt(arg, 0).pc, i |-> 0, end |-> LoopAt(arg, 0).end, retry |-> 0,
              batches |-> <<>>,
              progress |-> [ProcessedFiles |-> 0, PublishedEvents |-> 0, FailedEvents |-> 0],
              updates |-> 0, ch |-> 0, attempts |-> 0, dropped |-> 0, err |-> NoErr]
    /\ header = Header1 /\ input = <<>> /\ pc = "none" /\ pos = 1
    /\ columnUsage = EmptyMap /\ sourcetypeHeaderIdx = EmptyMap
    /\ recordChannels = EmptyMap /\ chClosed = {} /\ writer = EmptyMap
    /\ fs = EmptyMap /\ records = EmptyMap /\ errorChan = <<>> /\ errClosed = FALSE
    /\ collector = "none" /\ processingErr = nilError /\ closer = "none"
    /\ retErr = nilError /\ panicked = FALSE /\ usedDefault = FALSE
    /\ PubIdle

\* one attempt of the retry loop on events[i:end]
SendEvents ==
    /\ ret.pc = "send"
    /\ \/ ret' = [ret EXCEPT !.pc = "published", !.retry = 0,
                             !.batches = Append(@, <<ret.i, ret.end>>)]
       \/ ret' = IF ret.retry + 1 < arg.RetryCount
                 THEN [ret EXCEPT !.retry = @ + 1]
                 ELSE [ret EXCEPT !.pc = "failed", !.retry = 0]
    /\ UNCHANGED <<arg, splitVars, pubVars>>

\* sendErr != nil: the batch is counted as failed and processFile returns
BatchFailed ==
    /\ ret.pc = "failed"
    /\ ret' = [ret EXCEPT !.pc = "returned", !.err = "failed to send events",
                          !.progress.FailedEvents = @ + (ret.end - ret.i),
                          !.updates = @ + 1]
    /\ UNCHANGED <<arg, splitVars, pubVars>>

\* the batch is counted as published
BatchPublished ==
    /\ ret.pc = "published"
    /\ ret' = [ret EXCEPT !.pc = "notify",
                          !.progress.PublishedEvents = @ + (ret.end - ret.i),
                          !.updates = @ + 1]
    /\ UNCHANGED <<arg, splitVars, pubVars>>

\* the select on ProgressCh with its default arm, then the next batch
NotifyProgress ==
    /\ ret.pc = "notify"
    /\ LET next == LoopAt(arg, ret.i + arg.BatchSize)
           at == [ret EXCEPT !.pc = next.pc, !.i = next.i, !.end = next.end]
       IN  ret' = IF ~arg.ProgressCh THEN at
                  ELSE IF ret.ch < progressChCap
                       THEN [at EXCEPT !.attempts = @ + 1, !.ch = @ + 1]
                       ELSE [at EXCEPT !.attempts = @ + 1, !.dropped = @ + 1]
    /\ UNCHANGED <<arg, splitVars, pubVars>>

\* after the loop the file is marked as processed
FileProcessed ==
    /\ ret.pc = "processed"
    /\ ret' = [ret EXCEPT !.pc = "returned", !.progress.ProcessedFiles = @ + 1]
    /\ UNCHANGED <<arg, splitVars, pubVars>>

\* the display goroutine of runPublish takes a notification
DisplayReceive ==
    /\ ret.ch > 0
    /\ ret' = [ret EXCEPT !.ch = @ - 1]
    /\ UNCHANGED <<arg, splitVars, pubVars>>

FileNext ==
    \/ SendEvents
    \/ BatchFailed
    \/ BatchPublished
    \/ NotifyProgress
    \/ FileProcessed
    \/ DisplayReceive

FileSpec == FileInit /\ [][FileNext]_vars

\* every counter update of a batch made so far was followed by a send
\* attempt on the progress channel
NotifiedPerUpdate ==
    (arg.ProgressCh /\ ret.pc # "notify") => ret.attempts = ret.updates

\* the notification never blocks, leaves the counters as they are, and is
\* dropped when the channel is full
NotifyKeepsCounters ==
    (ret.pc = "notify" /\ ret'.pc # "notify") =>
        /\ ret'.progress = ret.progress
        /\ (arg.ProgressCh /\ ret.ch = progressChCap) =>
              (ret'.ch = ret.ch /\ ret'.dropped = ret.dropped + 1)
        /\ (arg.ProgressCh /\ ret.ch < progressChCap) => ret'.ch = ret.ch + 1

\* C27: with a progress channel configured, a notification is attempted
\* after every batch counter update, for a delivered batch and for a batch
\* that exhausted its retries alike; when the channel is full the
\* notification is dropped, the worker does not block and the counter update
\* is kept.
C27_NotifiedPerUpdate ==
    /\ [](NotifiedPerUpdate /\ (ret.pc = "notify" => ENABLED NotifyProgress))
    /\ [][NotifyKeepsCounters]_vars

\* what holds of the code: a notification is attempted after the update of
\* every delivered batch, and only then
NotifiedPerDelivered ==
    /\ [](/\ (arg.ProgressCh /\ ret.pc \notin {"published", "notify"})
                => ret.attempts = Len(ret.batches)
          /\ ~arg.ProgressCh => ret.attempts = 0
          /\ ret.pc = "notify" => ENABLED NotifyProgress)
    /\ [][NotifyKeepsCounters]_vars

-----------------------------------------------------------------------------
(* The batches of a file *)

\* the batches of file f the sink accepted, by their first index
AcceptedOf(f) == {i \in 0..files[f].events : SinkOf(f, i) > 0}

\* the files whose batches were all delivered are sent in the batches that
\* start at the multiples of BatchSize, each accepted once
SentInBatches ==
    (WorkersDone /\ ~config.DryRun) =>
        \A f \in FilesOK :
            /\ AcceptedOf(f) = BatchesOf(f)
            /\ \A i \in BatchesOf(f) : SinkOf(f, i) = 1 /\ BatchLenAt(f, i) \in 1..config.BatchSize
            /\ \A i \in BatchesOf(f) :
                  i + config.BatchSize < files[f].events => BatchLenAt(f, i) = config.BatchSize
            /\ SumSeq([n \in 1..files[f].events |->
                         IF (n - 1) \in BatchesOf(f) THEN BatchLenAt(f, n - 1) ELSE 0])
                  = files[f].events

\* the step that marks a file without events as processed adds one to
\* ProcessedFiles
EmptyFileCounted ==
    \A w \in DOMAIN worker :
        (WorkerAt(w, "wrDone") /\ EventsOf(w) = 0 /\ worker'[w].pc # "wrDone") =>
            /\ sink' = sink
            /\ AcceptedOf(worker[w].file) = {}
            /\ progress'.ProcessedFiles = progress.ProcessedFiles + 1

\* C28: when no batch of a file fails, the batches sent are consecutive
\* slices of its events in order, each of at most BatchSize events and all
\* but the last of exactly BatchSize, and together they are all its events;
\* a file without events sends nothing and is counted as processed.
C28_ConsecutiveBatches == [](SentInBatches) /\ [][EmptyFileCounted]_vars

\* what holds of the code, for processFile on one file by one worker: the
\* slices events[i:end] sent, in the order they were sent
BatchesAreSlices ==
    LET b == ret.batches
    IN  /\ \A k \in 1..Len(b) :
              /\ b[k][1] < b[k][2]
              /\ b[k][2] - b[k][1] <= arg.BatchSize
              /\ b[k][1] = IF k = 1 THEN 0 ELSE b[k - 1][2]
              /\ k < Len(b) => b[k][2] - b[k][1] = arg.BatchSize
        /\ (ret.pc = "returned" /\ ret.err = NoErr) =>
              /\ ret.progress.ProcessedFiles = 1
              /\ IF arg.events = 0 THEN b = <<>>
                 ELSE b # <<>> /\ b[Len(b)][2] = arg.events

-----------------------------------------------------------------------------
(* Row-level read errors *)

\* record i of the file of TransformCSV has a field count csv.Reader rejects
Malformed(i) == Len(arg.file[2][i]) # Len(arg.file[1])

\* C31: a read error on a row affects only that row, in pass 1, in pass 2
\* and in TransformCSV: the row is skipped, every later row is still
\* processed, and the pass or file is not aborted.  Here for TransformCSV.
C31_RowErrorSkipsRow ==
    (ret.pc = "returned" /\ ret.err # "time field not found") =>
        /\ ret.err # "error reading CSV"
        /\ (arg.config.DiscardInvalid \/ ret.err = NoErr) =>
              Len(ret.done) = Cardinality({i \in 1..Len(arg.file[2]) : ~Malformed(i)})

\* what holds of ProcessCSV: both passes go through the whole input, a row
\* with a read error is left out, and every other row is counted for its
\* sourcetype and routed to its channel, the rows after the error included
RowErrorSkippedInPasses ==
    /\ (pc \in {"pass2", "closing", "waitErr", "returned"} /\ sourcetypeIdx # 0) =>
          \A n \in 1..Len(input) :
              ~Skipped(input[n]) => SourcetypeOf(input[n]) \in DOMAIN columnUsage
    /\ (pc \in {"closing", "waitErr", "returned"} /\ sourcetypeIdx # 0) =>
          /\ pos = Len(input) + 1
          /\ \A n \in 1..Len(input) :
                ~Skipped(input[n]) => SourcetypeOf(input[n]) \in DOMAIN recordChannels
          /\ \A st \in DOMAIN recordChannels : RowsFor(st, Len(input)) # <<>>

\* a row with a read error is followed by a row that was routed
RowErrorThenRouted ==
    /\ pc = "closing" /\ Len(input) = 2
    /\ ReadError(input[1]) /\ ~Skipped(input[2])
    /\ DOMAIN recordChannels = {SourcetypeOf(input[2])}

-----------------------------------------------------------------------------
(* PublishDirectory runs to completion *)

\* the goroutines of PublishDirectory are scheduled as long as one of them
\* can run; every call of the sink returns
PubFairSpec == PubSpec /\ WF_vars(PubNext)

\* at the return every worker has ended, filesCh is empty and every file of
\* the list was handed to processFile
AllAttempted ==
    (pubPc = "returned" /\ files # <<>>) =>
        /\ WorkersDone
        /\ filesCh = <<>> /\ fed = Len(files)
        /\ DOMAIN fileResult = 1..Len(files)

\* a worker that has not ended can take a step, or waits on filesCh for a
\* file PublishDirectory has still to feed or for the close; it never waits on
\* errorChan
WorkerNotStuck ==
    \A w \in DOMAIN worker :
        \/ worker[w].pc = "exited"
        \/ ENABLED (WorkerRecv(w) \/ WorkerExit(w) \/ Transform(w) \/ ReadProgress(w)
                      \/ WriteTotal(w) \/ WriteDryRun(w) \/ Send(w) \/ WritePublished(w)
                      \/ WriteFailed(w) \/ WriteProcessed(w))
        \/ worker[w].pc = "idle" /\ filesCh = <<>> /\ ~filesClosed /\ pubPc = "feeding"

\* C32: PublishDirectory eventually returns for every file list and worker
\* count: every worker ends, every queued file is attempted, and no worker
\* waits forever on filesCh or on errorChan.
C32_PublishReturns ==
    /\ <>(pubPc = "returned")
    /\ [](AllAttempted /\ WorkerNotStuck)

\* PublishDirectory has returned after two workers processed two files, one
\* of which failed
C32_Witness ==
    /\ pubPc = "returned" /\ WorkersDone
    /\ Cardinality(DOMAIN worker) = 2 /\ Len(files) = 2
    /\ FailedFiles # {} /\ FilesOK # {}

-----------------------------------------------------------------------------
(* The close of errorChan *)

\* the writer of st has nothing left to report: writeCSV has returned and
\* its error, if any, was sent
ReportedAll(st) == writer[st].pc = "done"

\* C33: in no interleaving does a writer send on errorChan after errorChan
\* was closed; errorChan is closed only after every writer has finished
\* reporting.
C33_CloseAfterWriters ==
    /\ [][\A st \in DOMAIN writer :
            (WriterAt(st, "report") /\ writer'[st].pc # "report") => ~errClosed]_vars
    /\ [][(~errClosed /\ errClosed') => \A st \in DOMAIN writer : ReportedAll(st)]_vars

-----------------------------------------------------------------------------
(* The sourcetype of a file's events *)

\* a directory for the workers of one Publisher: each file by the number of
\* its records; file f has the sourcetype f, as file names differ
SourceTypeRuns == [Concurrency : {1, 2},
                   files : SeqsUpTo({1, 2}, MaxFiles) \ {<<>>}]

\* the Transformer's configuration is one object, shared by the workers;
\* events is what TransformCSV has made of each file so far
SourceTypeInit ==
    /\ arg \in SourceTypeRuns
    /\ ret = [SourceType |-> 0, next |-> 1,
              worker |-> [w \in 1..arg.Concurrency |-> [pc |-> "idle", file |-> 0, n |-> 0]],
              events |-> [f \in 1..Len(arg.files) |-> <<>>]]
    /\ header = Header1 /\ input = <<>> /\ pc = "none" /\ pos = 1
    /\ columnUsage = EmptyMap /\ sourcetypeHeaderIdx = EmptyMap
    /\ recordChannels = EmptyMap /\ chClosed = {} /\ writer = EmptyMap
    /\ fs = EmptyMap /\ records = EmptyMap /\ errorChan = <<>> /\ errClosed = FALSE
    /\ collector = "none" /\ processingErr = nilError /\ closer = "none"
    /\ retErr = nilError /\ panicked = FALSE /\ usedDefault = FALSE
    /\ PubIdle

\* the worker receives the next file and derives the sourcetype from its name
TakeFile(w) ==
    /\ ret.worker[w].pc = "idle"
    /\ ret.next <= Len(arg.files)
    /\ ret' = [ret EXCEPT !.next = @ + 1,
                          !.worker[w] = [pc |-> "set", file |-> ret.next, n |-> 0]]
    /\ UNCHANGED <<arg, splitVars, pubVars>>

\* tConfig := p.config.Transformer.Config(); tConfig.SourceType = sourcetype
SetSourceType(w) ==
    /\ ret.worker[w].pc = "set"
    /\ ret' = [ret EXCEPT !.SourceType = ret.worker[w].file,
                          !.worker[w].pc = "transform"]
    /\ UNCHANGED <<arg, splitVars, pubVars>>

\* transformRecord on the next record: the event gets t.config.SourceType
TransformRecordOf(w) ==
    /\ ret.worker[w].pc = "transform"
    /\ ret.worker[w].n < arg.files[ret.worker[w].file]
    /\ ret' = [ret EXCEPT !.events[ret.worker[w].file] = Append(@, ret.SourceType),
                          !.worker[w].n = @ + 1]
    /\ UNCHANGED <<arg, splitVars, pubVars>>

\* TransformCSV has read the whole file: the worker goes on with the next
EndTransform(w) ==
    /\ ret.worker[w].pc = "transform"
    /\ ret.worker[w].n = arg.files[ret.worker[w].file]
    /\ ret' = [ret EXCEPT !.worker[w] = [pc |-> "idle", file |-> 0, n |-> 0]]
    /\ UNCHANGED <<arg, splitVars, pubVars>>

SourceTypeNext ==
    \/ \E w \in DOMAIN ret.worker : TakeFile(w)
    \/ \E w \in DOMAIN ret.worker : SetSourceType(w)
    \/ \E w \in DOMAIN ret.worker : TransformRecordOf(w)
    \/ \E w \in DOMAIN ret.worker : EndTransform(w)

SourceTypeSpec == SourceTypeInit /\ [][SourceTypeNext]_vars

OwnSourceType == \A f \in DOMAIN ret.events : \A k \in 1..Len(ret.events[f]) : ret.events[f][k] = f

\* C34: with more than one worker, every event made of a file carries the
\* sourcetype derived from that file's own name, whatever another worker
\* sets for its own file in between.
C34_OwnSourceType == arg.Concurrency > 1 => OwnSourceType

\* with one worker every event has the sourcetype of its file
OwnSourceTypeOneWorker == arg.Concurrency = 1 => OwnSourceType

-----------------------------------------------------------------------------
(* One writer per output file *)

\* the writer of st has called os.Create on its output file with success
Created(st) == writer[st].pc # "create" /\ writer[st].err # "create"

\* C35: no output file is created or written by more than one writer of a
\* run: two sourcetypes with the same sanitized name never both get a writer
\* that creates and writes the same file.
C35_OneWriterPerFile ==
    \A a, b \in DOMAIN writer :
        (a # b /\ Created(a) /\ Created(b)) => OutputFile(a) # OutputFile(b)

-----------------------------------------------------------------------------
(* The error collector at the return of ProcessCSV *)

\* ProcessCSV has returned, on any of its paths
HasReturned == pc \in {"returned", "failed"}

\* C36: on every return path of ProcessCSV taken after the error collector
\* was started and registered on the caller's wait group, the early returns
\* for a failed seek or header read included, errorChan is closed, so the
\* collector ends and the caller's wg.Wait eventually returns.
C36_CollectorEnds ==
    /\ [](HasReturned => (collector = "none" \/ errClosed))
    /\ (HasReturned /\ collector # "none") ~> (collector = "done")

\* what holds of the code: on the return at the end of ProcessCSV errorChan
\* is closed and the collector has ended
CollectorEndsAfterPass2 == pc = "returned" => (collector = "none" \/ (errClosed /\ collector = "done"))

-----------------------------------------------------------------------------
(* Client.SendEvents *)

\* the most requests of one call that are followed
MaxRequests == 5

\* a call of SendEvents: the number of events, and Client.BatchSize, which
\* NewClient takes from the options as it is
SendRuns == [events : 0..MaxEvents, BatchSize : (0 - 2)..MaxEvents]

\* requests holds the slice events[i:end] of every request made
SendInit ==
    /\ arg \in SendRuns
    /\ ret = [pc |-> "start", i |-> 0, requests |-> <<>>, err |-> NoErr]
    /\ header = Header1 /\ input = <<>> /\ pc = "none" /\ pos = 1
    /\ columnUsage = EmptyMap /\ sourcetypeHeaderIdx = EmptyMap
    /\ recordChannels = EmptyMap /\ chClosed = {} /\ writer = EmptyMap
    /\ fs = EmptyMap /\ records = EmptyMap /\ errorChan = <<>> /\ errClosed = FALSE
    /\ collector = "none" /\ processingErr = nilError /\ closer = "none"
    /\ retErr = nilError /\ panicked = FALSE /\ usedDefault = FALSE
    /\ PubIdle

\* no events: nil is returned and nothing is sent
SendNothing ==
    /\ ret.pc = "start"
    /\ arg.events = 0
    /\ ret' = [ret EXCEPT !.pc = "returned"]
    /\ UNCHANGED <<arg, splitVars, pubVars>>

\* len(events) <= c.BatchSize: one request with all events; sendPayload
\* returns nil or an error
SendDirect ==
    /\ ret.pc = "start"
    /\ arg.events > 0 /\ arg.events <= arg.BatchSize
    /\ \E e \in {NoErr, "error sending events"} :
          ret' = [ret EXCEPT !.pc = "returned", !.err = e,
                             !.requests = Append(@, <<0, arg.events>>)]
    /\ UNCHANGED <<arg, splitVars, pubVars>>

\* more events than c.BatchSize: the loop over the chunks is entered
SplitIntoChunks ==
    /\ ret.pc = "start"
    /\ arg.events > 0 /\ arg.events > arg.BatchSize
    /\ ret' = [ret EXCEPT !.pc = "loop", !.i = 0]
    /\ UNCHANGED <<arg, splitVars, pubVars>>

\* one turn of the loop: events[i:end] is sent, and i grows by c.BatchSize;
\* the slice expression panics when end is below i
SendChunk ==
    /\ ret.pc = "loop"
    /\ ret.i < arg.events
    /\ Len(ret.requests) < MaxRequests
    /\ LET end == IF ret.i + arg.BatchSize > arg.events THEN arg.events
                  ELSE ret.i + arg.BatchSize
       IN  IF end < ret.i
           THEN ret' = [ret EXCEPT !.pc = "panicked"]
           ELSE \/ ret' = [ret EXCEPT !.requests = Append(@, <<ret.i, end>>),
                                      !.i = @ + arg.BatchSize]
                \/ ret' = [ret EXCEPT !.requests = Append(@, <<ret.i, end>>),
                                      !.pc = "returned", !.err = "error sending events batch"]
    /\ UNCHANGED <<arg, splitVars, pubVars>>

\* the loop is left: nil is returned
ChunksSent ==
    /\ ret.pc = "loop"
    /\ ret.i >= arg.events
    /\ ret' = [ret EXCEPT !.pc = "returned"]
    /\ UNCHANGED <<arg, splitVars, pubVars>>

SendNext == SendNothing \/ SendDirect \/ SplitIntoChunks \/ SendChunk \/ ChunksSent

SendSpec == SendInit /\ [][SendNext]_vars

\* the requests made so far carry at least one event each, no event twice,
\* and the call has not ended in a panic
FiniteRequests ==
    /\ ret.pc # "panicked"
    /\ \A k \in 1..Len(ret.requests) : ret.requests[k][1] < ret.requests[k][2]
    /\ Len(ret.requests) <= arg.events
    /\ ret.pc \in {"start", "loop"} => ENABLED SendNext

\* C37: SendEvents terminates for every non-empty list of events and every
\* BatchSize of the client, zero and negative values included: it makes a
\* finite number of requests, each with at least one event, and returns.
C37_SendEventsTerminates == arg.events > 0 => FiniteRequests

\* what holds of the code: with a positive BatchSize
SendEventsTerminatesPositive == arg.BatchSize > 0 => FiniteRequests

-----------------------------------------------------------------------------
(* The counters of Progress against each other *)

CountersBounded ==
    /\ progress.PublishedEvents + progress.FailedEvents <= progress.TotalEvents
    /\ progress.ProcessedFiles <= progress.TotalFiles

CountersGrow ==
    /\ progress'.ProcessedFiles >= progress.ProcessedFiles
    /\ progress'.TotalEvents >= progress.TotalEvents
    /\ progress'.PublishedEvents >= progress.PublishedEvents
    /\ progress'.FailedEvents >= progress.FailedEvents
    /\ progress'.TotalFiles >= progress.TotalFiles

\* C38: in every reachable state of a publish run, for any number of
\* workers, PublishedEvents + FailedEvents <= TotalEvents and
\* ProcessedFiles <= TotalFiles, and no counter ever decreases.
C38_CountersBounded == [](CountersBounded) /\ [][CountersGrow]_vars

\* with one worker the counters are bounded and never decrease
CountersBoundedOneWorker ==
    /\ [](config.Concurrency = 1 => CountersBounded)
    /\ [][config.Concurrency = 1 => CountersGrow]_vars
\* for any number of workers no more files are counted than the directory has
ProcessedBounded == progress.ProcessedFiles <= progress.TotalFiles

-----------------------------------------------------------------------------
(* Errors left on errorChan between calls *)

\* C39: a call of PublishDirectory returns an error only if a file failed
\* during that call: after an earlier call that recorded several errors and
\* returned one, a call in which every file succeeds returns nil and not an
\* error the earlier call left.
C39_NoLeftoverError ==
    (pubPc = "returned" /\ files # <<>>) =>
        /\ pubRet # nilError => \E f \in FailedFiles : pubRet = FileError(f)
        /\ pubRet # EarlierError

-----------------------------------------------------------------------------
(* A time field that is not in the header *)

\* the run goes on without the time column
ContinuesWithoutTimeColumn ==
    /\ TimeColumnAbsent
    /\ arg.config.DefaultTimestamp # <<>> \/ arg.config.DiscardInvalid

\* what transformRecord makes of the row when no time field is configured
WithoutTimeField ==
    TransformedRecord(arg.file[1], arg.file[2], [arg.config EXCEPT !.TimeField = ""])

\* C40: when the configured time field is not a column of the header and
\* the run may go on, no column of the row is used as the timestamp: the
\* first column is not parsed as a time and stays among the fields, no row
\* is discarded for it, and the event gets the default timestamp if one is
\* configured and none otherwise.
C40_NoColumnAsTimestamp ==
    (ret # <<>> /\ ContinuesWithoutTimeColumn /\ ~WithoutTimeField.panicked) =>
        /\ ret[1].record # <<>>
        /\ ret[1].record[1].err = NoErr
        /\ ret[1].record[1].event.Time = arg.config.DefaultTimestamp
        /\ ret[1].record[1].event = WithoutTimeField.event
        /\ Len(ret[1].events) = 1

\* what holds of the code: the row is transformed as if the first column
\* of the header were the time field
FirstColumnAsTimestamp ==
    (ret # <<>> /\ ContinuesWithoutTimeColumn) =>
        /\ ret[1].record # <<>>
        /\ ret[1].record[1] =
              transformRecord(arg.file[2], arg.file[1], HeaderIndices(arg.file[1]), 0,
                              arg.config.ExcludeFields, arg.config)
        /\ (parseTimestamp(arg.file[2][1]) = <<>> /\ arg.config.DiscardInvalid)
              => ret[1].events = <<>>

====
